---- MODULE Spec2Model ----
(***************************************************************************)
(* The work package service (wps): the work package repository with its    *)
(* stores, the access check it calls, the domain models' validators and    *)
(* the token helpers, as a state machine.                                  *)
(*                                                                         *)
(* Time is counted in days.  Strings stand for UUIDs, keys and secrets.    *)
(* Python's None of an optional string is the reserved string NONE.        *)
(***************************************************************************)
EXTENDS Integers, Sequences, FiniteSets, TLC

VARIABLES
    now,            \* the clock read by now_utc_ms_prec()
    datasets,       \* the datasets collection: dataset id -> Dataset
    uploadBoxes,    \* the uploadBoxes collection: box id -> ResearchDataUploadBoxBasics
    workPackages,   \* the workPackages collection: work package id -> WorkPackage
    issued,         \* work package id -> the access secret create handed out for it
    signingKey,     \* self._signing_key of the repository, once it is constructed
    delivered,      \* the events the consumer received from the topics of their sources, in order
    revoked,        \* the work packages for which a re-check of the access gave no expiry date
    pending,        \* the create call that is between two of its awaits, if any
    grant,          \* whether the access service holds a grant for the user
    inbox,          \* the events published to the consumer's topics, not yet consumed
    dlq,            \* the events published to the dead letter queue topic
    last            \* the call made by the step just taken, and its outcome

vars == <<revoked, delivered, signingKey, now, datasets, uploadBoxes, workPackages, issued, pending, grant, inbox, dlq, last>>

------------------------------------------------------------------------------
(* Bounds of the model *)

\* How many work packages are created at most.
MaxPackages == 1

\* The instants the clock takes, in days since the start.
Instants == {0, 30, 40}

\* The expiry dates the access service grants access until.
GrantExpiries == {35}

------------------------------------------------------------------------------
(* Values *)

NONE == "<None>"

\* As Truthy, with the empty string counted as true.
Truthy_unless_none(s) == s /= NONE

\* Python truthiness of an optional string: None and "" are falsy.
Truthy(s) == s /= NONE /\ s /= ""

DOWNLOAD == "download"
UPLOAD == "upload"
WorkPackageType == {DOWNLOAD, UPLOAD}

work_package_valid_days == 30

Min(a, b) == IF a <= b THEN a ELSE b

\* The registered versions of the dataset (an upsertion event changes title and files).
DATASET_V1 ==
    [id |-> "D1", stage |-> DOWNLOAD, title |-> "Dataset1",
     files |-> << [id |-> "F1", extension |-> ".json"],
                  [id |-> "F2", extension |-> ".csv"] >>]

DATASET_V2 ==
    [id |-> "D1", stage |-> DOWNLOAD, title |-> "Changed",
     files |-> << [id |-> "F2", extension |-> ".csv"] >>]

DatasetVersions == {DATASET_V1, DATASET_V2}
DatasetIds == {"D1"}

\* Upload boxes: id is the research data upload box, file_upload_box_id the
\* box the connector knows.
BOX_B1 == [id |-> "B1", file_upload_box_id |-> "FB1", title |-> "Box1"]

\* The box after an update of its title.
BOX_B1_RENAMED == [id |-> "B1", file_upload_box_id |-> "FB1", title |-> "Renamed"]

UploadBoxVersions == {BOX_B1, BOX_B1_RENAMED}
BoxIds == {"B1", "B2"}

\* The access secrets generate_work_package_access_token can return.
Secrets == {"s1", "s2"}

\* The access tokens a caller supplies: none, the empty string, or a secret.
SuppliedTokens == {NONE, ""} \cup Secrets

USER_KEY == "k1"
\* The signing key pair of the service, and its public half alone.
SIGNING_KEY == [kid |-> "wps-signing-key", has_private |-> TRUE]
SIGNING_KEY_PUBLIC == [kid |-> "wps-signing-key", has_private |-> FALSE]

\* Auth contexts: one of an internal user, one whose id is no UUID.
AUTH_USER ==
    [id |-> "u1", name |-> "John Doe", title |-> "Dr.", email |-> "john@home.org"]
AUTH_MALFORMED ==
    [id |-> "not-a-uuid", name |-> "John Doe", title |-> "Dr.", email |-> "john@home.org"]
AuthContexts == {AUTH_USER, AUTH_MALFORMED}
UserIds == {"u1"}

------------------------------------------------------------------------------
(* wps.core.tokens and the sealed box of ghga_service_commons.utils.crypt *)

\* As hash_token, giving the token back unhashed.
hash_token_plain(token) == token

\* SHA-256 as hex: a fixed prefix marks the digest, distinct inputs give
\* distinct digests and no digest is itself a secret.
hash_token(token) == "sha256:" \o token

\* A sealed box: only the holder of the private half of key reads plain.
encrypt(data, key) == [sealed_to |-> key, plain |-> data]

WORK_ORDER_TOKEN_VALID_SECONDS == 30

\* As sign_work_order_token, valid for an hour.
sign_work_order_token_hour(work_order_token, key) ==
    [claims |-> work_order_token, signed_by |-> key, valid_seconds |-> 3600]

\* A signed work order token: the claims, who signed, and exp - iat in seconds.
sign_work_order_token(work_order_token, key) ==
    [claims |-> work_order_token, signed_by |-> key,
     valid_seconds |-> WORK_ORDER_TOKEN_VALID_SECONDS]

------------------------------------------------------------------------------
(* wps.adapters.outbound.http: the answers of the access API and what the *)
(* adapter makes of them                                                    *)

\* What the access check gives the repository: an expiry date, None, or an
\* AccessCheckError.
AccessGranted(at) == [kind |-> "expiry", at |-> at]
AccessNone == [kind |-> "none"]
AccessCheckError == [kind |-> "raise"]

\* HTTP responses of the access API: a status code and a JSON body, which is
\* null, an ISO datetime, a string that is no datetime, or the empty string
\* (which is no datetime either, and is falsy in Python).
JsonNull == [type |-> "null"]
JsonDatetime(at) == [type |-> "datetime", at |-> at]
JsonInvalid == [type |-> "invalid"]
JsonEmpty == [type |-> "empty"]

\* Python's "not valid_until" on a JSON value.
json_falsy(json) == json.type \in {"null", "empty"}

\* datetime.fromisoformat on a JSON value: the datetime, or ValueError /
\* TypeError.
fromisoformat_raises(json) == json.type /= "datetime"

\* The status codes the access API answers with.
StatusCodes == {200, 201, 401, 403, 404, 500, 503}

AccessResponses ==
    {[status_code |-> status_code, json |-> json] :
        status_code \in StatusCodes,
        json \in {JsonDatetime(at) : at \in GrantExpiries}
                 \cup {JsonNull, JsonInvalid, JsonEmpty}}

check_download_access(response) ==
    IF response.status_code = 200
    THEN IF json_falsy(response.json) THEN AccessNone
         ELSE IF fromisoformat_raises(response.json)
              THEN AccessCheckError
              ELSE AccessGranted(response.json.at)
    ELSE IF response.status_code = 404 THEN AccessNone
    ELSE AccessCheckError

check_upload_access(response) ==
    IF response.status_code = 404 THEN AccessNone
    ELSE IF response.status_code /= 200 THEN AccessCheckError
    ELSE IF json_falsy(response.json) THEN AccessNone
    ELSE IF fromisoformat_raises(response.json)
         THEN AccessCheckError
         ELSE AccessGranted(response.json.at)

\* What check_download_access and check_upload_access can give the repository.
AccessOutcomes ==
    {check_download_access(response) : response \in AccessResponses}
    \cup {check_upload_access(response) : response \in AccessResponses}

\* The access check was not called by the step.
NotCalled == [called |-> FALSE]

\* The access check was called for a user and a dataset or box, with an outcome.
Called(kind, user_id, resource_id, outcome) ==
    [called |-> TRUE, kind |-> kind, user_id |-> user_id,
     resource_id |-> resource_id, outcome |-> outcome]

------------------------------------------------------------------------------
(* The document stores behind the DAOs: a collection maps the id field to  *)
(* the document.                                                            *)

EmptyCollection == <<>>

dao_has(collection, id_) == id_ \in DOMAIN collection

\* As dao_upsert, with a stored document kept.
dao_upsert_keeping(collection, id_, dto) ==
    [k \in (DOMAIN collection) \cup {id_} |->
        IF k = id_ /\ id_ \notin DOMAIN collection THEN dto ELSE collection[k]]

dao_upsert(collection, id_, dto) ==
    [k \in (DOMAIN collection) \cup {id_} |->
        IF k = id_ THEN dto ELSE collection[k]]

dao_insert(collection, id_, dto) ==
    [k \in (DOMAIN collection) \cup {id_} |->
        IF k = id_ /\ id_ \notin DOMAIN collection THEN dto ELSE collection[k]]

dao_delete(collection, id_) ==
    [k \in (DOMAIN collection) \ {id_} |-> collection[k]]

------------------------------------------------------------------------------
(* Outcomes of a call *)

Return(value) == [raised |-> FALSE, value |-> value]
Raise(exc, msg) == [raised |-> TRUE, exc |-> exc, msg |-> msg]

WorkPackageAccessError(msg) == Raise("WorkPackageAccessError", msg)
ValidationError(msg) == Raise("ValidationError", msg)

------------------------------------------------------------------------------
(* wps.core.crypt *)

\* A key as the user sends it: the base64 payload, bare or between the
\* BEGIN/END lines of a PEM wrapper with the given label.
BareKey(payload) == [pem |-> "", payload |-> payload]
PemKey(label, payload) == [pem |-> label, payload |-> payload]

\* The base64 payloads: USER_KEY decodes to 32 bytes, the other one to 31.
KeyPayloads == {USER_KEY, "k-31-bytes"}

\* decode_key of ghga_service_commons: base64 text of exactly 32 bytes.
decodable(key) == key.pem = "" /\ key.payload = USER_KEY

\* A value that is no string, such as None.
NotAString == [not_a_string |-> TRUE]

\* As validate_public_key, stripping the BEGIN/END lines of any public key.
validate_public_key_any_wrapper(key) ==
    IF key = NotAString \/ (key.pem = "" /\ key.payload = "")
    THEN Raise("ValueError", "Key must be a non-empty string")
    ELSE IF key.pem \in {"CRYPT4GH PRIVATE KEY", "PRIVATE KEY"}
    THEN Raise("ValueError", "Do not pass a private key")
    ELSE IF decodable(BareKey(key.payload))
         THEN Return(key.payload)
         ELSE Raise("ValueError", "Invalid key")

validate_public_key(key) ==
    IF key = NotAString \/ (key.pem = "" /\ key.payload = "")
    THEN Raise("ValueError", "Key must be a non-empty string")
    ELSE IF key.pem \in {"CRYPT4GH PRIVATE KEY", "PRIVATE KEY"}
    THEN Raise("ValueError", "Do not pass a private key")
    ELSE LET stripped == IF key.pem = "CRYPT4GH PUBLIC KEY"
                         THEN BareKey(key.payload) ELSE key
         IN  IF decodable(stripped)
             THEN Return(stripped.payload)
             ELSE Raise("ValueError", "Invalid key")

------------------------------------------------------------------------------
(* wps.core.models *)

\* An optional list of file ids: None, or the list.
NoFileIds == [given |-> FALSE]
FileIdList(ids) == [given |-> TRUE, ids |-> ids]

RECURSIVE JoinErrors(_)
\* "; ".join(errors)
JoinErrors(errors) ==
    IF Len(errors) = 0 THEN ""
    ELSE IF Len(errors) = 1 THEN errors[1]
    ELSE errors[1] \o "; " \o JoinErrors(Tail(errors))

\* As work_package_data_errors, without the rules on the id that is not needed.
work_package_data_errors_required_only(data) ==
    IF data.type = DOWNLOAD /\ ~Truthy(data.dataset_id)
    THEN <<"dataset_id is required for download work packages">>
    ELSE IF data.type = UPLOAD /\ ~Truthy(data.box_id)
    THEN <<"box_id is required for upload work packages">>
    ELSE <<>>

\* The list of the rules data violates, in the order the validator appends them.
work_package_data_errors(data) ==
    IF data.type = DOWNLOAD
    THEN (IF ~Truthy(data.dataset_id)
          THEN <<"dataset_id is required for download work packages">>
          ELSE <<>>)
         \o (IF Truthy(data.box_id)
             THEN <<"box_id shouldn't be provided for download work packages">>
             ELSE <<>>)
    ELSE IF data.type = UPLOAD
    THEN (IF ~Truthy(data.box_id)
          THEN <<"box_id is required for upload work packages">>
          ELSE <<>>)
         \o (IF Truthy(data.dataset_id)
             THEN <<"dataset_id shouldn't be provided for upload work packages">>
             ELSE <<>>)
    ELSE <<>>

validate_work_package_data(data) ==
    LET errors == work_package_data_errors(data)
    IN  IF Len(errors) > 0
        THEN Raise("ValueError", JoinErrors(errors))
        ELSE Return(data)

\* WorkPackageCreationData(**raw): the field validator of the key runs first,
\* the model validator only on fields that are valid.
WorkPackageCreationData(raw) ==
    LET key == validate_public_key(raw.user_public_crypt4gh_key)
    IN  IF key.raised
        THEN ValidationError(key.msg)
        ELSE LET data == [dataset_id |-> raw.dataset_id,
                          box_id |-> raw.box_id,
                          type |-> raw.type,
                          file_ids |-> raw.file_ids,
                          user_public_crypt4gh_key |-> key.value]
                 checked == validate_work_package_data(data)
             IN  IF checked.raised
                 THEN ValidationError(checked.msg)
                 ELSE Return(data)

\* WorkPackage(**fields): the model validator of the work package.
WorkPackage(fields) ==
    LET checked == validate_work_package_data(fields)
    IN  IF checked.raised THEN ValidationError(checked.msg) ELSE Return(fields)

\* The requests a client can send to create a work package.
RequestedFileIds ==
    {NoFileIds, FileIdList(<<>>), FileIdList(<<"F2", "F1">>),
     FileIdList(<<"F1", "FX">>)}

RequestedKeys ==
    {BareKey(USER_KEY), PemKey("CRYPT4GH PUBLIC KEY", USER_KEY),
     PemKey("CRYPT4GH PRIVATE KEY", USER_KEY)}

RawCreationData ==
    [type : WorkPackageType,
     dataset_id : {NONE} \cup DatasetIds,
     box_id : {NONE} \cup BoxIds,
     file_ids : RequestedFileIds,
     user_public_crypt4gh_key : RequestedKeys]

\* The creation data that exist as objects: what the constructor accepts.
ValidCreationData ==
    {WorkPackageCreationData(raw).value :
        raw \in {r \in RawCreationData : ~WorkPackageCreationData(r).raised}}

\* The work order tokens, as the repository builds them.
DownloadWorkOrder(file_id, user_public_crypt4gh_key) ==
    Return([work_type |-> "download", file_id |-> file_id,
            user_public_crypt4gh_key |-> user_public_crypt4gh_key])

CreateFileWorkOrder(alias, box_id, user_public_crypt4gh_key) ==
    IF alias = NONE
    THEN ValidationError("alias: Input should be a valid string")
    ELSE Return([work_type |-> "create", alias |-> alias, box_id |-> box_id,
                 user_public_crypt4gh_key |-> user_public_crypt4gh_key])

FileUploadToken(work_type, box_id, file_id, user_public_crypt4gh_key) ==
    IF file_id = NONE
    THEN ValidationError("file_id: UUID input should be a string, bytes or UUID object")
    ELSE Return([work_type |-> work_type, file_id |-> file_id, box_id |-> box_id,
                 user_public_crypt4gh_key |-> user_public_crypt4gh_key])

ViewFileBoxWorkOrder(box_id, user_public_crypt4gh_key) ==
    Return([work_type |-> "view", box_id |-> box_id,
            user_public_crypt4gh_key |-> user_public_crypt4gh_key])

\* The work types of the upload path.
UploadPathType == {"create", "upload", "close", "delete", "view"}

\* As UploadWorkOrderTokenRequest, but also rejecting a parameter that the
\* work type does not use.
UploadWorkOrderTokenRequest_exact(raw) ==
    IF raw.work_type \notin UploadPathType
    THEN ValidationError("work_type: Input should be 'create', 'upload', 'close', 'delete' or 'view'")
    ELSE IF raw.work_type = "create" /\ Truthy(raw.alias) /\ raw.file_id = NONE
    THEN Return(raw)
    ELSE IF raw.work_type \in {"upload", "close", "delete"} /\ Truthy(raw.file_id) /\ raw.alias = NONE
    THEN Return(raw)
    ELSE IF raw.work_type = "view" /\ raw.alias = NONE /\ raw.file_id = NONE
    THEN Return(raw)
    ELSE ValidationError("Unexpected parameter for work type")

\* UploadWorkOrderTokenRequest: the fields are validated first, then the
\* validator validate_parameters_and_work_type, which tests the parameter
\* the work type requires for truth ("not self.alias", "not self.file_id").
UploadWorkOrderTokenRequest(raw) ==
    IF raw.work_type \notin UploadPathType
    THEN ValidationError("work_type: Input should be 'create', 'upload', 'close', 'delete' or 'view'")
    ELSE IF raw.work_type = "view"
    THEN Return(raw)
    ELSE IF raw.work_type = "create" /\ ~Truthy(raw.alias)
    THEN ValidationError("File alias is required for CREATE work type")
    ELSE IF raw.work_type /= "create" /\ ~Truthy(raw.file_id)
    THEN ValidationError("File ID is required for UPLOAD, CLOSE, DELETE work types")
    ELSE Return(raw)

------------------------------------------------------------------------------
(* Python lists, sets and dicts as the repository uses them *)

\* set(a_list)
list_to_set(a_list) == {a_list[i] : i \in DOMAIN a_list}

RECURSIVE select_in(_, _)
\* [x for x in a_list if x in a_set]
select_in(a_list, a_set) ==
    IF a_list = <<>> THEN <<>>
    ELSE (IF Head(a_list) \in a_set THEN <<Head(a_list)>> ELSE <<>>)
         \o select_in(Tail(a_list), a_set)

\* A dict is the list of its (key, value) items in insertion order.
dict_keys(a_dict) == {a_dict[i][1] : i \in DOMAIN a_dict}

\* a_dict[key] = value: a new key is appended, a known key keeps its place.
dict_set(a_dict, key, value) ==
    IF key \in dict_keys(a_dict)
    THEN [i \in DOMAIN a_dict |->
            IF a_dict[i][1] = key THEN <<key, value>> ELSE a_dict[i]]
    ELSE Append(a_dict, <<key, value>>)

RECURSIVE files_dict(_, _, _)
\* {file.id: file.extension for file in files if file.id in file_id_set},
\* continued from the items collected so far
files_dict(files, file_id_set, so_far) ==
    IF files = <<>> THEN so_far
    ELSE files_dict(Tail(files), file_id_set,
                    IF Head(files).id \in file_id_set
                    THEN dict_set(so_far, Head(files).id, Head(files).extension)
                    ELSE so_far)

------------------------------------------------------------------------------
(* wps.core.repository: WorkPackageRepository *)

\* UUID(auth_context.id) raises a ValueError for a string that is no UUID.
is_uuid(text) == text \in UserIds \cup BoxIds

\* What a list operation of the access adapter gives the repository: a
\* mapping (as the sequence of its items) from ids to expiry dates, or an
\* AccessCheckError.
AccessMapping(items) == [kind |-> "mapping", items |-> items]

\* The loop over response.json().items(): each value is converted with
\* fromisoformat and each key with convert_key (UUID for boxes, nothing for
\* datasets); the first failure raises AccessCheckError.
RECURSIVE converted_items(_, _, _)

converted_items(items, convertible_keys, so_far) ==
    IF items = <<>> THEN AccessMapping(so_far)
    ELSE LET key == Head(items)[1]
             valid_until == Head(items)[2]
         IN  IF fromisoformat_raises(valid_until) \/ key \notin convertible_keys
             THEN AccessCheckError
             ELSE converted_items(Tail(items), convertible_keys,
                                  dict_set(so_far, key, valid_until.at))

\* The keys the access API answers a list request with: the ids of datasets
\* or boxes, and a key that is no UUID.
ListedKeys == DatasetIds \cup {"B1", "not-a-uuid"}

get_accessible_datasets_with_expiration(response) ==
    IF response.status_code = 200
    THEN converted_items(response.json, ListedKeys, <<>>)
    ELSE IF response.status_code = 404 THEN AccessMapping(<<>>)
    ELSE AccessCheckError

get_accessible_boxes_with_expiration(response) ==
    IF response.status_code = 404 THEN AccessMapping(<<>>)
    ELSE IF response.status_code /= 200 THEN AccessCheckError
    ELSE converted_items(response.json, {key \in ListedKeys : is_uuid(key)}, <<>>)

\* ids of work packages: uuid4() gives one that is not in use.
WorkPackageIds == 1 .. MaxPackages

fresh_id ==
    CHOOSE id_ \in 1 .. (Cardinality(DOMAIN workPackages) + 1) :
        ~dao_has(workPackages, id_)

\* What a repository call does: its outcome, the access check it made, and the
\* work packages collection it leaves.
\* As Done, with the work packages purged when one is found expired.
Done_purging_expired(result, access, work_packages) ==
    [result |-> result, access |-> access,
     work_packages |-> IF result.raised /\ result.msg = "Work package has expired"
                       THEN EmptyCollection
                       ELSE work_packages]

Done(result, access, work_packages) ==
    [result |-> result, access |-> access, work_packages |-> work_packages]

\* As bounded_expires, without the expiry date of the access grant.
bounded_expires_by_days(created, expires) == created + work_package_valid_days

\* expires = min(created + self._valid_timedelta, expires)
bounded_expires(created, expires) == Min(created + work_package_valid_days, expires)

\* _create_work_package_record
create_work_package_record(creation_data, auth_context, user_id, expires, files, dataset_id, box_id, access, token) ==
    LET full_user_name ==
            IF Truthy(auth_context.title)
            THEN auth_context.title \o " " \o auth_context.name
            ELSE auth_context.name
        created == now
        final_expires == bounded_expires(created, expires)
        user_public_crypt4gh_key == creation_data.user_public_crypt4gh_key
        work_package ==
            WorkPackage([id |-> fresh_id,
                         dataset_id |-> dataset_id,
                         box_id |-> box_id,
                         type |-> creation_data.type,
                         files |-> files,
                         user_id |-> user_id,
                         full_user_name |-> full_user_name,
                         email |-> auth_context.email,
                         user_public_crypt4gh_key |-> user_public_crypt4gh_key,
                         token_hash |-> hash_token(token),
                         created |-> created,
                         expires |-> final_expires])
    IN  IF work_package.raised
        THEN Done(work_package, access, workPackages)
        ELSE Done(Return([id |-> work_package.value.id,
                          token |-> encrypt(token, user_public_crypt4gh_key),
                          expires |-> final_expires]),
                  access,
                  dao_insert(workPackages, work_package.value.id,
                             work_package.value))

\* As checked_access, taking a failed check for a grant of the full period.
checked_access_lenient(outcome, failed_msg, missing_msg) ==
    IF outcome.kind = "none" THEN WorkPackageAccessError(missing_msg)
    ELSE IF outcome.kind = "raise" THEN Return(now + work_package_valid_days)
    ELSE Return(outcome.at)

\* As checked_access, taking a missing permission for a grant of the full period.
checked_access_unconditional(outcome, failed_msg, missing_msg) ==
    IF outcome.kind = "raise" THEN WorkPackageAccessError(failed_msg)
    ELSE IF outcome.kind = "none" THEN Return(now + work_package_valid_days)
    ELSE Return(outcome.at)

\* The access check of a creation: an AccessCheckError and a missing
\* permission end the creation, an expiry date is passed on.
checked_access(outcome, failed_msg, missing_msg) ==
    IF outcome.kind = "raise" THEN WorkPackageAccessError(failed_msg)
    ELSE IF outcome.kind = "none" THEN WorkPackageAccessError(missing_msg)
    ELSE Return(outcome.at)

\* As selected_file_ids, taking the requested ids as they are.
selected_file_ids_as_requested(dataset, requested) ==
    IF requested.given
    THEN requested.ids
    ELSE [i \in DOMAIN dataset.files |-> dataset.files[i].id]

\* The ids of the files of the dataset, restricted to the requested ones
\* unless file_ids is None.
selected_file_ids(dataset, requested) ==
    LET all_ids == [i \in DOMAIN dataset.files |-> dataset.files[i].id]
    IN  IF requested.given
        THEN select_in(all_ids, list_to_set(requested.ids))
        ELSE all_ids

\* _create_download_work_package
create_download_work_package(creation_data, auth_context, user_id, dataset_id, outcome, token) ==
    LET access == Called(DOWNLOAD, user_id, dataset_id, outcome)
        expires == checked_access(outcome,
                       "Failed to check dataset access permission",
                       "Missing dataset access permission")
    IN  IF expires.raised
        THEN Done(expires, access, workPackages)
        ELSE IF ~dao_has(datasets, dataset_id)
        THEN Done(WorkPackageAccessError("Cannot determine dataset files"),
                  access, workPackages)
        ELSE LET dataset == datasets[dataset_id]
                 file_ids == selected_file_ids(dataset, creation_data.file_ids)
             IN  IF file_ids = <<>>
                 THEN Done(WorkPackageAccessError(
                               "No existing files have been specified"),
                           access, workPackages)
                 ELSE create_work_package_record(
                          creation_data, auth_context, user_id, expires.value,
                          files_dict(dataset.files, list_to_set(file_ids), <<>>),
                          dataset_id, NONE, access, token)

\* As create_upload_work_package, for a registered upload box only.
create_upload_work_package_registered(creation_data, auth_context, user_id, box_id, outcome, token) ==
    LET access == Called(UPLOAD, user_id, box_id, outcome)
        expires == checked_access(outcome,
                       "Failed to check upload box access permission",
                       "Missing upload box access permission")
    IN  IF expires.raised
        THEN Done(expires, access, workPackages)
        ELSE IF ~dao_has(uploadBoxes, box_id)
        THEN Done(WorkPackageAccessError("Upload box does not exist"),
                  access, workPackages)
        ELSE create_work_package_record(
                 creation_data, auth_context, user_id, expires.value, <<>>,
                 NONE, box_id, access, token)

\* _create_upload_work_package
create_upload_work_package(creation_data, auth_context, user_id, box_id, outcome, token) ==
    LET access == Called(UPLOAD, user_id, box_id, outcome)
        expires == checked_access(outcome,
                       "Failed to check upload box access permission",
                       "Missing upload box access permission")
    IN  IF expires.raised
        THEN Done(expires, access, workPackages)
        ELSE create_work_package_record(
                 creation_data, auth_context, user_id, expires.value, <<>>,
                 NONE, box_id, access, token)

\* create
create(creation_data, auth_context, outcome, token) ==
    IF ~is_uuid(auth_context.id)
    THEN Done(WorkPackageAccessError("Malformed user ID supplied"),
              NotCalled, workPackages)
    ELSE IF creation_data.type = DOWNLOAD
    THEN create_download_work_package(creation_data, auth_context,
             auth_context.id, creation_data.dataset_id, outcome, token)
    ELSE create_upload_work_package(creation_data, auth_context,
             auth_context.id, creation_data.box_id, outcome, token)

\* As title_of, without the capital letter.
title_of_lower(type) == type

\* "download".title()
title_of(type) == IF type = DOWNLOAD THEN "Download" ELSE "Upload"

\* As token_mismatch, comparing the stored hash with the token itself.
token_mismatch_unhashed(work_package, work_package_access_token) ==
    /\ Truthy(work_package_access_token)
    /\ work_package.token_hash /= work_package_access_token

\* As token_mismatch, comparing with the hashes of all work packages.
token_mismatch_with_all(work_package, work_package_access_token) ==
    /\ Truthy(work_package_access_token)
    /\ \A id_ \in DOMAIN workPackages :
           workPackages[id_].token_hash /= hash_token(work_package_access_token)

\* The supplied access token does not match the hash in the work package.
token_mismatch(work_package, work_package_access_token) ==
    /\ Truthy(work_package_access_token)
    /\ work_package.token_hash /= hash_token(work_package_access_token)

\* As is_valid_at, without an end.
is_valid_at_unbounded(work_package, at) == work_package.created <= at

\* As is_valid_at, with the instant of expiry still counted as valid.
is_valid_at_inclusive(work_package, at) ==
    work_package.created <= at /\ at <= work_package.expires

\* work_package.created <= now_utc_ms_prec() < work_package.expires
is_valid_at(work_package, at) ==
    work_package.created <= at /\ at < work_package.expires

\* As rechecked_access, taking a missing permission for access.
rechecked_access_trusting(work_package, outcome) ==
    IF outcome.kind = "raise"
    THEN WorkPackageAccessError(
             IF work_package.type = DOWNLOAD
             THEN "Failed to check dataset access permission"
             ELSE "Failed to check upload box access permission")
    ELSE Return(work_package.expires)

\* The access re-check of get: what it raises, or has_access.
rechecked_access(work_package, outcome) ==
    IF outcome.kind = "raise"
    THEN WorkPackageAccessError(
             IF work_package.type = DOWNLOAD
             THEN "Failed to check dataset access permission"
             ELSE "Failed to check upload box access permission")
    ELSE IF outcome.kind = "none"
    THEN WorkPackageAccessError(
             title_of(work_package.type) \o " access has been revoked")
    ELSE Return(outcome.at)

\* As get, with the validity checked before the access token.
get_validity_first(work_package_id, check_valid, work_package_access_token, outcome) ==
    IF ~dao_has(workPackages, work_package_id)
    THEN Done(WorkPackageAccessError("Work package not found"),
              NotCalled, workPackages)
    ELSE LET work_package == workPackages[work_package_id]
             access ==
                 IF work_package.type = DOWNLOAD
                 THEN Called(DOWNLOAD, work_package.user_id,
                             work_package.dataset_id, outcome)
                 ELSE Called(UPLOAD, work_package.user_id,
                             work_package.box_id, outcome)
             has_access == rechecked_access(work_package, outcome)
         IN  IF check_valid /\ ~is_valid_at(work_package, now)
             THEN Done(WorkPackageAccessError("Work package has expired"),
                       NotCalled, workPackages)
             ELSE IF check_valid /\ has_access.raised
             THEN Done(has_access, access, workPackages)
             ELSE IF token_mismatch(work_package, work_package_access_token)
             THEN Done(WorkPackageAccessError("Invalid work package access token"),
                       IF check_valid THEN access ELSE NotCalled, workPackages)
             ELSE Done(Return(work_package),
                       IF check_valid THEN access ELSE NotCalled, workPackages)

\* get
get(work_package_id, check_valid, work_package_access_token, outcome) ==
    IF ~dao_has(workPackages, work_package_id)
    THEN Done(WorkPackageAccessError("Work package not found"),
              NotCalled, workPackages)
    ELSE LET work_package == workPackages[work_package_id]
         IN  IF token_mismatch(work_package, work_package_access_token)
             THEN Done(WorkPackageAccessError("Invalid work package access token"),
                       NotCalled, workPackages)
             ELSE IF ~check_valid
             THEN Done(Return(work_package), NotCalled, workPackages)
             ELSE IF ~is_valid_at(work_package, now)
             THEN Done(WorkPackageAccessError("Work package has expired"),
                       NotCalled, workPackages)
             ELSE LET access ==
                         IF work_package.type = DOWNLOAD
                         THEN Called(DOWNLOAD, work_package.user_id,
                                     work_package.dataset_id, outcome)
                         ELSE Called(UPLOAD, work_package.user_id,
                                     work_package.box_id, outcome)
                      has_access == rechecked_access(work_package, outcome)
                  IN  IF has_access.raised
                      THEN Done(has_access, access, workPackages)
                      ELSE Done(Return(work_package), access, workPackages)

\* As file_in_work_package, looking the file up in the dataset as it is
\* stored now.
file_in_work_package_by_dataset(work_package, file_id) ==
    /\ dao_has(datasets, work_package.dataset_id)
    /\ \E i \in DOMAIN datasets[work_package.dataset_id].files :
           datasets[work_package.dataset_id].files[i].id = file_id

\* As file_in_work_package, for any file id.
file_in_work_package_always(work_package, file_id) == TRUE

\* file_id in (work_package.files or {})
file_in_work_package(work_package, file_id) ==
    file_id \in dict_keys(work_package.files)

\* get_download_wot
get_download_wot(work_package_id, file_id, check_valid, work_package_access_token, outcome) ==
    LET got == get(work_package_id, check_valid, work_package_access_token, outcome)
    IN  IF got.result.raised THEN got
        ELSE LET work_package == got.result.value
             IN  IF work_package.type /= DOWNLOAD
                 THEN Done(WorkPackageAccessError(
                      "Work package type must be DOWNLOAD to obtain a download access WOT"),
                      got.access, workPackages)
                 ELSE IF ~file_in_work_package(work_package, file_id)
                 THEN Done(WorkPackageAccessError(
                               "File is not contained in work package"),
                           got.access, workPackages)
                 ELSE LET wot == DownloadWorkOrder(
                                     file_id, work_package.user_public_crypt4gh_key)
                      IN  IF wot.raised THEN Done(wot, got.access, workPackages)
                          ELSE Done(Return(encrypt(
                                        sign_work_order_token(wot.value, signingKey),
                                        work_package.user_public_crypt4gh_key)),
                                    got.access, workPackages)

\* As wot_box_id, with the id of the research data upload box.
wot_box_id_research(research_data_upload_box) == research_data_upload_box.id

\* The box id of an upload work order token: that of the FileUploadBox.
wot_box_id(research_data_upload_box) ==
    research_data_upload_box.file_upload_box_id

\* get_upload_wot
get_upload_wot(work_package_id, work_type, box_id, alias, file_id, check_valid, work_package_access_token, outcome) ==
    LET got == get(work_package_id, check_valid, work_package_access_token, outcome)
    IN  IF got.result.raised THEN got
        ELSE IF ~dao_has(uploadBoxes, box_id)
        THEN Done(WorkPackageAccessError("Upload box does not exist"),
                  got.access, workPackages)
        ELSE LET work_package == got.result.value
                 file_upload_box_id == wot_box_id(uploadBoxes[box_id])
                 user_public_crypt4gh_key == work_package.user_public_crypt4gh_key
                 work_order ==
                    IF work_type = "create"
                    THEN CreateFileWorkOrder(alias, file_upload_box_id,
                                             user_public_crypt4gh_key)
                    ELSE IF work_type \in {"upload", "close", "delete"}
                    THEN FileUploadToken(work_type, file_upload_box_id, file_id,
                                         user_public_crypt4gh_key)
                    ELSE IF work_type = "view"
                    THEN ViewFileBoxWorkOrder(file_upload_box_id,
                                              user_public_crypt4gh_key)
                    ELSE WorkPackageAccessError(
                             "Unsupported Work Order Token type: " \o work_type)
             IN  IF work_order.raised
                 THEN Done(work_order, got.access, workPackages)
                 ELSE Done(Return(encrypt(
                               sign_work_order_token(work_order.value, signingKey),
                               user_public_crypt4gh_key)),
                           got.access, workPackages)

\* register_dataset
register_dataset(dataset) == dao_upsert(datasets, dataset.id, dataset)

\* delete_dataset: the outcome and the datasets collection it leaves
delete_dataset(dataset_id) ==
    IF dao_has(datasets, dataset_id)
    THEN [result |-> Return(NONE), datasets |-> dao_delete(datasets, dataset_id)]
    ELSE [result |-> Raise("DatasetNotFoundError", "Dataset not found"),
          datasets |-> datasets]

\* register_upload_box
register_upload_box(upload_box) == dao_upsert(uploadBoxes, upload_box.id, upload_box)

\* As delete_upload_box, with the ResourceNotFoundError of the DAO passed on.
delete_upload_box_raising(box_id) ==
    IF dao_has(uploadBoxes, box_id)
    THEN [result |-> Return(NONE), uploadBoxes |-> dao_delete(uploadBoxes, box_id)]
    ELSE [result |-> Raise("UploadBoxNotFoundError", "UploadBox not found"),
          uploadBoxes |-> uploadBoxes]

\* delete_upload_box: a missing box is presumed already deleted
delete_upload_box(box_id) ==
    IF dao_has(uploadBoxes, box_id)
    THEN [result |-> Return(NONE), uploadBoxes |-> dao_delete(uploadBoxes, box_id)]
    ELSE [result |-> Return(NONE), uploadBoxes |-> uploadBoxes]

\* get_dataset
get_dataset(dataset_id) ==
    IF dao_has(datasets, dataset_id)
    THEN Return(datasets[dataset_id])
    ELSE Raise("DatasetNotFoundError", "Dataset not found")

\* get_upload_box
get_upload_box(box_id) ==
    IF dao_has(uploadBoxes, box_id)
    THEN Return(uploadBoxes[box_id])
    ELSE Raise("UploadBoxNotFoundError", "UploadBox not found")

\* DatasetWithExpiration(**dataset.model_dump(), expires=...) and
\* BoxWithExpiration(**upload_box.model_dump(), expires=...)
with_expiration(dto, expires) ==
    [field \in (DOMAIN dto) \cup {"expires"} |->
        IF field = "expires" THEN expires ELSE dto[field]]

\* The loop of get_datasets / get_upload_boxes: the stored entities among
\* the accessible ones, in the order of the mapping.
RECURSIVE stored_with_expiration(_, _)

stored_with_expiration(collection, items) ==
    IF items = <<>> THEN <<>>
    ELSE LET id_ == Head(items)[1]
             rest == stored_with_expiration(collection, Tail(items))
         IN  IF dao_has(collection, id_)
             THEN <<with_expiration(collection[id_], Head(items)[2])>> \o rest
             ELSE rest

\* As get_datasets, with a failed listing taken for an empty one.
get_datasets_lenient(auth_context, listing) ==
    IF ~is_uuid(auth_context.id)
    THEN WorkPackageAccessError("Malformed user ID supplied")
    ELSE IF listing = AccessCheckError
    THEN Return(<<>>)
    ELSE Return(stored_with_expiration(datasets, listing.items))

\* get_datasets
get_datasets(auth_context, listing) ==
    IF ~is_uuid(auth_context.id)
    THEN WorkPackageAccessError("Malformed user ID supplied")
    ELSE IF listing = AccessCheckError
    THEN WorkPackageAccessError("Failed to fetch accessible datasets with expiration")
    ELSE Return(stored_with_expiration(datasets, listing.items))

\* get_upload_boxes
get_upload_boxes(auth_context, listing) ==
    IF ~is_uuid(auth_context.id)
    THEN WorkPackageAccessError("Malformed user ID supplied")
    ELSE IF listing = AccessCheckError
    THEN WorkPackageAccessError("Failed to fetch accessible upload boxes with expiration")
    ELSE Return(stored_with_expiration(uploadBoxes, listing.items))

------------------------------------------------------------------------------
(* wps.adapters.inbound.event_sub: the translators of the event consumer   *)

\* Topics and types of the configuration.
config ==
    [dataset_change_topic |-> "metadata_datasets",
     dataset_upsertion_type |-> "dataset_created",
     dataset_deletion_type |-> "dataset_deleted",
     upload_box_topic |-> "upload-boxes",
     retry_topic |-> "retry-wps",
     kafka_dlq_topic |-> "dlq"]

\* Payloads of dataset events: a MetadataDatasetOverview, a MetadataDatasetID,
\* or an object that fits no schema.
MetadataDatasetOverview(accession, title, stage, files) ==
    [schema |-> "MetadataDatasetOverview", accession |-> accession,
     title |-> title, stage |-> stage, dac_alias |-> "Some DAC", files |-> files]

MetadataDatasetFile(accession, file_extension) ==
    [accession |-> accession, description |-> "Some file",
     file_extension |-> file_extension]

MetadataDatasetID(accession) ==
    [schema |-> "MetadataDatasetID", accession |-> accession]

BOGUS_PAYLOAD == [schema |-> "none", some_key |-> "some_value"]

\* The payload of an outbox event that announces a deletion.
EMPTY_PAYLOAD == [schema |-> "none"]

\* get_validated_payload: the payload, or EventSchemaValidationError
get_validated_payload(payload, schema) ==
    IF payload.schema = schema
    THEN Return(payload)
    ELSE Raise("EventSchemaValidationError", schema)

\* WorkPackageType[name]: the member of that name, or KeyError
WorkPackageTypeNames == {"DOWNLOAD", "UPLOAD"}

WorkPackageTypeByName(name) == IF name = "DOWNLOAD" THEN DOWNLOAD ELSE UPLOAD

\* [DatasetFile(id=..., extension=...) for payload_file in files]
dataset_files(files) ==
    [i \in DOMAIN files |->
        [id |-> files[i].accession, extension |-> files[i].file_extension]]

\* What a handler does: its outcome and the two collections it leaves.
Handled(result, new_datasets, new_upload_boxes) ==
    [result |-> result, datasets |-> new_datasets, uploadBoxes |-> new_upload_boxes]

\* As handle_upsertion, with an invalid payload ignored.
handle_upsertion_tolerant(payload) ==
    Handled(Return(NONE),
            IF payload.schema = "MetadataDatasetOverview"
            THEN register_dataset([id |-> payload.accession,
                                   stage |-> WorkPackageTypeByName(payload.stage),
                                   title |-> payload.title,
                                   files |-> dataset_files(payload.files)])
            ELSE datasets,
            uploadBoxes)

\* As handle_upsertion, with the KeyError of an unknown stage passed on.
handle_upsertion_keyerror(payload) ==
    LET validated_payload == get_validated_payload(payload, "MetadataDatasetOverview")
    IN  IF validated_payload.raised
        THEN Handled(validated_payload, datasets, uploadBoxes)
        ELSE IF validated_payload.value.stage \notin WorkPackageTypeNames
        THEN Handled(Raise("KeyError", validated_payload.value.stage),
                     datasets, uploadBoxes)
        ELSE LET dataset ==
                     [id |-> validated_payload.value.accession,
                      stage |-> WorkPackageTypeByName(validated_payload.value.stage),
                      title |-> validated_payload.value.title,
                      files |-> dataset_files(validated_payload.value.files)]
             IN  Handled(Return(NONE), register_dataset(dataset), uploadBoxes)

\* EventSubTranslator._handle_upsertion
handle_upsertion(payload) ==
    LET validated_payload == get_validated_payload(payload, "MetadataDatasetOverview")
    IN  IF validated_payload.raised
        THEN Handled(validated_payload, datasets, uploadBoxes)
        ELSE IF validated_payload.value.stage \notin WorkPackageTypeNames
        THEN Handled(Return(NONE), datasets, uploadBoxes)
        ELSE LET dataset ==
                     [id |-> validated_payload.value.accession,
                      stage |-> WorkPackageTypeByName(validated_payload.value.stage),
                      title |-> validated_payload.value.title,
                      files |-> dataset_files(validated_payload.value.files)]
             IN  Handled(Return(NONE), register_dataset(dataset), uploadBoxes)

\* As handle_deletion, with the DatasetNotFoundError passed on.
handle_deletion_unsuppressed(payload) ==
    LET validated_payload == get_validated_payload(payload, "MetadataDatasetID")
    IN  IF validated_payload.raised
        THEN Handled(validated_payload, datasets, uploadBoxes)
        ELSE LET done == delete_dataset(validated_payload.value.accession)
             IN  Handled(done.result, done.datasets, uploadBoxes)

\* EventSubTranslator._handle_deletion
handle_deletion(payload) ==
    LET validated_payload == get_validated_payload(payload, "MetadataDatasetID")
    IN  IF validated_payload.raised
        THEN Handled(validated_payload, datasets, uploadBoxes)
        ELSE LET done == delete_dataset(validated_payload.value.accession)
             IN  IF done.result.raised /\ done.result.exc = "DatasetNotFoundError"
                 THEN Handled(Return(NONE), done.datasets, uploadBoxes)
                 ELSE Handled(done.result, done.datasets, uploadBoxes)

\* As consume_validated, with the two handlers swapped.
consume_validated_swapped(payload, type_, topic, key) ==
    IF type_ = config.dataset_upsertion_type THEN handle_deletion(payload)
    ELSE IF type_ = config.dataset_deletion_type THEN handle_upsertion(payload)
    ELSE Handled(Return(NONE), datasets, uploadBoxes)

\* EventSubTranslator._consume_validated
consume_validated(payload, type_, topic, key) ==
    IF type_ = config.dataset_upsertion_type THEN handle_upsertion(payload)
    ELSE IF type_ = config.dataset_deletion_type THEN handle_deletion(payload)
    ELSE Handled(Return(NONE), datasets, uploadBoxes)

\* The state of a research data upload box, as the outbox event carries it.
ResearchDataUploadBox(id_, file_upload_box_id, title) ==
    [id |-> id_, file_upload_box_id |-> file_upload_box_id, title |-> title,
     state |-> "open"]

\* changed: the basics of the box are registered
changed(resource_id, update) ==
    Handled(Return(NONE), datasets,
            register_upload_box([id |-> update.id,
                                 file_upload_box_id |-> update.file_upload_box_id,
                                 title |-> update.title]))

\* deleted: UUID(resource_id) raises for a key that is no UUID
deleted(resource_id) ==
    IF ~is_uuid(resource_id)
    THEN Handled(Raise("ValueError", "badly formed hexadecimal UUID string"),
                 datasets, uploadBoxes)
    ELSE LET done == delete_upload_box(resource_id)
         IN  IF done.result.raised /\ done.result.exc = "UploadBoxNotFoundError"
             THEN Handled(Return(NONE), datasets, done.uploadBoxes)
             ELSE Handled(done.result, datasets, done.uploadBoxes)

------------------------------------------------------------------------------
(* The calls a client or the event consumer makes *)

\* The answers of the access API to a list request: a status code and, with
\* 200, a JSON object from ids to datetimes.
ListedExpiry == CHOOSE at \in GrantExpiries : TRUE

ListResponses ==
    {[status_code |-> status_code, json |-> json] :
        status_code \in StatusCodes,
        json \in {<<>>,
                  <<<<"D1", JsonDatetime(ListedExpiry)>>>>,
                  <<<<"D1", JsonInvalid>>>>,
                  <<<<"B1", JsonDatetime(ListedExpiry)>>>>,
                  <<<<"B1", JsonNull>>>>,
                  <<<<"not-a-uuid", JsonDatetime(ListedExpiry)>>>>,
                  <<<<"B1", JsonDatetime(ListedExpiry)>>,
                    <<"not-a-uuid", JsonDatetime(ListedExpiry)>>>>,
                  <<<<"B1", JsonDatetime(ListedExpiry)>>,
                    <<"B2", JsonEmpty>>>>,
                  <<<<"D1", JsonDatetime(ListedExpiry)>>,
                    <<"B1", JsonDatetime(ListedExpiry)>>>>,
                  <<<<"B2", JsonDatetime(ListedExpiry)>>,
                    <<"B1", JsonDatetime(ListedExpiry)>>>>}}

\* What the list operations can give the repository.
DatasetListings ==
    {get_accessible_datasets_with_expiration(response) : response \in ListResponses}

BoxListings ==
    {get_accessible_boxes_with_expiration(response) : response \in ListResponses}

\* The file ids a download work order token is asked for.
AskedFileIds == {"F1", "F2", "FX"}

\* The parameters an upload work order token is asked with.
UploadRequests ==
    {[work_type |-> "view", alias |-> NONE, file_id |-> NONE],
     [work_type |-> "create", alias |-> "test-file", file_id |-> NONE],
     [work_type |-> "create", alias |-> NONE, file_id |-> NONE],
     [work_type |-> "upload", alias |-> NONE, file_id |-> "U1"],
     [work_type |-> "upload", alias |-> NONE, file_id |-> NONE],
     [work_type |-> "close", alias |-> NONE, file_id |-> "U1"],
     [work_type |-> "delete", alias |-> NONE, file_id |-> "U1"]}

\* The box an upload work order token is asked for.
AskedBoxIds == {"B1"}

\* The work package ids a caller asks for: the ones in use and one that is not.
AskedWorkPackageIds == 1 .. (MaxPackages + 1)

NoCall == [op |-> "none"]

\* No create call is between two awaits.
NoCreate == [pc |-> "idle"]

Init ==
    /\ revoked = {}
    /\ delivered = <<>>
    /\ signingKey = SIGNING_KEY
    /\ now = 0
    /\ datasets = EmptyCollection
    /\ uploadBoxes = EmptyCollection
    /\ workPackages = EmptyCollection
    /\ issued = EmptyCollection
    /\ pending = NoCreate
    /\ grant = "granted"
    /\ last = NoCall
    /\ inbox = <<>>
    /\ dlq = <<>>

\* Time passes.
Tick ==
    /\ last = NoCall
    /\ \E later \in Instants : later > now /\ now' = later
    /\ UNCHANGED <<revoked, delivered, signingKey, inbox, dlq, datasets, uploadBoxes, workPackages, issued, last, pending, grant>>

\* The caller takes the outcome of the call; the next call can be made.
Respond ==
    /\ last /= NoCall
    /\ last' = NoCall
    /\ UNCHANGED <<revoked, delivered, signingKey, inbox, dlq, now, datasets, uploadBoxes, workPackages, issued, pending, grant>>

Create(creation_data, auth_context, outcome, token) ==
    /\ last = NoCall
    /\ Cardinality(DOMAIN workPackages) < MaxPackages
    /\ LET done == create(creation_data, auth_context, outcome, token)
       IN  /\ workPackages' = done.work_packages
           /\ issued' = IF done.result.raised THEN issued
                         ELSE dao_insert(issued, done.result.value.id, token)
           /\ last' = [op |-> "create", creation_data |-> creation_data,
                       auth_context |-> auth_context, access |-> done.access,
                       result |-> done.result]
    /\ UNCHANGED <<revoked, delivered, signingKey, inbox, dlq, now, datasets, uploadBoxes, pending, grant>>

Get(work_package_id, check_valid, work_package_access_token, outcome) ==
    /\ last = NoCall
    /\ LET done == get(work_package_id, check_valid, work_package_access_token, outcome)
       IN  /\ workPackages' = done.work_packages
           /\ last' = [op |-> "get", work_package_id |-> work_package_id,
                       check_valid |-> check_valid,
                       work_package_access_token |-> work_package_access_token,
                       access |-> done.access, result |-> done.result]
    /\ UNCHANGED <<revoked, delivered, signingKey, inbox, dlq, now, datasets, uploadBoxes, issued, pending, grant>>

GetDownloadWot(work_package_id, file_id, check_valid, work_package_access_token, outcome) ==
    /\ last = NoCall
    /\ LET done == get_download_wot(work_package_id, file_id, check_valid, work_package_access_token, outcome)
       IN  /\ workPackages' = done.work_packages
           /\ last' = [op |-> "get_download_wot",
                       work_package_id |-> work_package_id,
                       file_id |-> file_id,
                       check_valid |-> check_valid,
                       work_package_access_token |-> work_package_access_token,
                       access |-> done.access, result |-> done.result]
    /\ UNCHANGED <<revoked, delivered, signingKey, inbox, dlq, now, datasets, uploadBoxes, issued, pending, grant>>

GetUploadWot(work_package_id, request, box_id, check_valid, work_package_access_token, outcome) ==
    /\ last = NoCall
    /\ LET done == get_upload_wot(work_package_id, request.work_type, box_id, request.alias, request.file_id, check_valid, work_package_access_token, outcome)
       IN  /\ workPackages' = done.work_packages
           /\ last' = [op |-> "get_upload_wot",
                       work_package_id |-> work_package_id,
                       work_type |-> request.work_type,
                       box_id |-> box_id,
                       alias |-> request.alias,
                       file_id |-> request.file_id,
                       check_valid |-> check_valid,
                       work_package_access_token |-> work_package_access_token,
                       access |-> done.access, result |-> done.result]
    /\ UNCHANGED <<revoked, delivered, signingKey, inbox, dlq, now, datasets, uploadBoxes, issued, pending, grant>>

RegisterDataset(dataset) ==
    /\ last = NoCall
    /\ datasets' = register_dataset(dataset)
    /\ last' = [op |-> "register_dataset", dataset |-> dataset,
                result |-> Return(NONE)]
    /\ UNCHANGED <<revoked, delivered, signingKey, inbox, dlq, now, uploadBoxes, workPackages, issued, pending, grant>>

DeleteDataset(dataset_id) ==
    /\ last = NoCall
    /\ LET done == delete_dataset(dataset_id)
       IN  /\ datasets' = done.datasets
           /\ last' = [op |-> "delete_dataset", dataset_id |-> dataset_id,
                       result |-> done.result]
    /\ UNCHANGED <<revoked, delivered, signingKey, inbox, dlq, now, uploadBoxes, workPackages, issued, pending, grant>>

RegisterUploadBox(upload_box) ==
    /\ last = NoCall
    /\ uploadBoxes' = register_upload_box(upload_box)
    /\ last' = [op |-> "register_upload_box", upload_box |-> upload_box,
                result |-> Return(NONE)]
    /\ UNCHANGED <<revoked, delivered, signingKey, inbox, dlq, now, datasets, workPackages, issued, pending, grant>>

DeleteUploadBox(box_id) ==
    /\ last = NoCall
    /\ LET done == delete_upload_box(box_id)
       IN  /\ uploadBoxes' = done.uploadBoxes
           /\ last' = [op |-> "delete_upload_box", box_id |-> box_id,
                       result |-> done.result]
    /\ UNCHANGED <<revoked, delivered, signingKey, inbox, dlq, now, datasets, workPackages, issued, pending, grant>>

GetDatasets(auth_context, listing) ==
    /\ last = NoCall
    /\ last' = [op |-> "get_datasets", auth_context |-> auth_context,
                listing |-> listing,
                result |-> get_datasets(auth_context, listing)]
    /\ UNCHANGED <<revoked, delivered, signingKey, inbox, dlq, now, datasets, uploadBoxes, workPackages, issued, pending, grant>>

GetUploadBoxes(auth_context, listing) ==
    /\ last = NoCall
    /\ last' = [op |-> "get_upload_boxes", auth_context |-> auth_context,
                listing |-> listing,
                result |-> get_upload_boxes(auth_context, listing)]
    /\ UNCHANGED <<revoked, delivered, signingKey, inbox, dlq, now, datasets, uploadBoxes, workPackages, issued, pending, grant>>

Next ==
    \/ Tick
    \/ Respond
    \/ \E creation_data \in ValidCreationData, auth_context \in AuthContexts, outcome \in AccessOutcomes, token \in Secrets : Create(creation_data, auth_context, outcome, token)
    \/ \E work_package_id \in AskedWorkPackageIds, check_valid \in BOOLEAN, token \in SuppliedTokens, outcome \in AccessOutcomes : Get(work_package_id, check_valid, token, outcome)
    \/ \E work_package_id \in AskedWorkPackageIds, file_id \in AskedFileIds, check_valid \in BOOLEAN, token \in SuppliedTokens, outcome \in AccessOutcomes : GetDownloadWot(work_package_id, file_id, check_valid, token, outcome)
    \/ \E work_package_id \in AskedWorkPackageIds, request \in UploadRequests, box_id \in AskedBoxIds, check_valid \in BOOLEAN, token \in SuppliedTokens, outcome \in AccessOutcomes : GetUploadWot(work_package_id, request, box_id, check_valid, token, outcome)
    \/ \E dataset \in DatasetVersions : RegisterDataset(dataset)
    \/ \E dataset_id \in DatasetIds : DeleteDataset(dataset_id)
    \/ \E upload_box \in UploadBoxVersions : RegisterUploadBox(upload_box)
    \/ \E box_id \in BoxIds : DeleteUploadBox(box_id)
    \/ \E auth_context \in AuthContexts, listing \in DatasetListings : GetDatasets(auth_context, listing)
    \/ \E auth_context \in AuthContexts, listing \in BoxListings : GetUploadBoxes(auth_context, listing)

Spec == Init /\ [][Next]_vars

------------------------------------------------------------------------------
(* The models on their own: objects are constructed from raw data, and the  *)
(* packages create stores are those that pass the WorkPackage validator.    *)

\* The raw data a WorkPackageCreationData is constructed from: those of the
\* requests, and the same with an empty dataset id.
ConstructorInputs ==
    RawCreationData
    \cup [type : WorkPackageType, dataset_id : {""}, box_id : {NONE} \cup BoxIds,
          file_ids : {NoFileIds}, user_public_crypt4gh_key : RequestedKeys]

\* The fields a WorkPackage is constructed from.
WorkPackageFields ==
    [id : {1}, type : WorkPackageType, dataset_id : {NONE, ""} \cup DatasetIds,
     box_id : {NONE} \cup BoxIds, files : {<<>>}, user_id : UserIds,
     full_user_name : {"Dr. John Doe"}, email : {"john@home.org"},
     user_public_crypt4gh_key : {USER_KEY}, token_hash : {hash_token("s1")},
     created : {0}, expires : {30}]

NewWorkPackageCreationData(raw) ==
    /\ last = NoCall
    /\ last' = [op |-> "WorkPackageCreationData", raw |-> raw,
                result |-> WorkPackageCreationData(raw)]
    /\ UNCHANGED <<revoked, delivered, signingKey, inbox, dlq, now, datasets, uploadBoxes, workPackages, issued, pending, grant>>

NewWorkPackage(fields) ==
    /\ last = NoCall
    /\ last' = [op |-> "WorkPackage", raw |-> fields,
                result |-> WorkPackage(fields)]
    /\ UNCHANGED <<revoked, delivered, signingKey, inbox, dlq, now, datasets, uploadBoxes, workPackages, issued, pending, grant>>

\* The bodies a token request is constructed from: every work type and one
\* that is not of the upload path, with and without alias and file id.
TokenRequestInputs ==
    [work_type : UploadPathType \cup {"download"},
     alias : {NONE, "", "test-file"},
     file_id : {NONE, "U1"}]

NewUploadWorkOrderTokenRequest(raw) ==
    /\ last = NoCall
    /\ last' = [op |-> "UploadWorkOrderTokenRequest", raw |-> raw,
                result |-> UploadWorkOrderTokenRequest(raw)]
    /\ UNCHANGED <<revoked, delivered, signingKey, inbox, dlq, now, datasets, uploadBoxes, workPackages, issued, pending, grant>>

\* The keys validate_public_key is called with: no string, or a payload
\* (empty, of 32 bytes, of 31 bytes) that is bare or wrapped as a Crypt4GH
\* public key, as another public key, or as a private key.
KeyInputs ==
    {NotAString}
    \cup [pem : {"", "CRYPT4GH PUBLIC KEY", "CRYPT9GH PUBLIC KEY",
                 "CRYPT4GH PRIVATE KEY", "PRIVATE KEY"},
          payload : KeyPayloads \cup {""}]

ValidatePublicKey(key) ==
    /\ last = NoCall
    /\ last' = [op |-> "validate_public_key", key |-> key,
                result |-> validate_public_key(key)]
    /\ UNCHANGED <<revoked, delivered, signingKey, inbox, dlq, now, datasets, uploadBoxes, workPackages, issued, pending, grant>>

NextModels ==
    \/ Respond
    \/ \E key \in KeyInputs : ValidatePublicKey(key)
    \/ \E raw \in TokenRequestInputs : NewUploadWorkOrderTokenRequest(raw)
    \/ \E raw \in ConstructorInputs : NewWorkPackageCreationData(raw)
    \/ \E fields \in WorkPackageFields : NewWorkPackage(fields)
    \/ \E dataset \in DatasetVersions : RegisterDataset(dataset)
    \/ \E creation_data \in ValidCreationData, auth_context \in AuthContexts, outcome \in AccessOutcomes, token \in Secrets : Create(creation_data, auth_context, outcome, token)

SpecModels == Init /\ [][NextModels]_vars

------------------------------------------------------------------------------
(* create, await by await: the access check, the load of the dataset and   *)
(* the insert are separate steps, and the grant of the access service, the *)
(* clock and the datasets can change between them.                          *)

\* What the access service answers while it holds a grant, and while not.
OutcomesWhen(granted) ==
    IF granted = "granted"
    THEN {AccessGranted(at) : at \in GrantExpiries} \cup {AccessCheckError}
    ELSE {AccessNone, AccessCheckError}

\* The access service withdraws the grant, or grants anew.
ChangeGrant ==
    /\ last = NoCall
    /\ grant' = (IF grant = "granted" THEN "revoked" ELSE "granted")
    /\ UNCHANGED <<revoked, delivered, signingKey, inbox, dlq, now, datasets, uploadBoxes, workPackages, issued, pending, last>>

\* create up to the return of the access check.
CreateCheck(creation_data, auth_context, outcome) ==
    /\ last = NoCall
    /\ pending = NoCreate
    /\ Cardinality(DOMAIN workPackages) < MaxPackages
    /\ LET download == creation_data.type = DOWNLOAD
           resource_id == IF download THEN creation_data.dataset_id
                                      ELSE creation_data.box_id
           access == Called(creation_data.type, auth_context.id, resource_id, outcome)
           expires ==
               IF download
               THEN checked_access(outcome,
                        "Failed to check dataset access permission",
                        "Missing dataset access permission")
               ELSE checked_access(outcome,
                        "Failed to check upload box access permission",
                        "Missing upload box access permission")
           failed(result, asked) ==
               /\ pending' = NoCreate
               /\ last' = [op |-> "create", creation_data |-> creation_data,
                           auth_context |-> auth_context, access |-> asked,
                           result |-> result]
       IN  IF ~is_uuid(auth_context.id)
           THEN failed(WorkPackageAccessError("Malformed user ID supplied"), NotCalled)
           ELSE IF expires.raised
           THEN failed(expires, access)
           ELSE /\ pending' = [pc |-> "checked", creation_data |-> creation_data,
                               auth_context |-> auth_context, access |-> access,
                               expires |-> expires.value, files |-> <<>>]
                /\ last' = last
    /\ UNCHANGED <<revoked, delivered, signingKey, inbox, dlq, now, datasets, uploadBoxes, workPackages, issued, grant>>

\* _create_download_work_package from the load of the dataset to the files.
CreateLoad ==
    /\ last = NoCall
    /\ pending.pc = "checked"
    /\ pending.creation_data.type = DOWNLOAD
    /\ LET dataset_id == pending.creation_data.dataset_id
           failed(result) ==
               /\ pending' = NoCreate
               /\ last' = [op |-> "create",
                           creation_data |-> pending.creation_data,
                           auth_context |-> pending.auth_context,
                           access |-> pending.access, result |-> result]
       IN  IF ~dao_has(datasets, dataset_id)
           THEN failed(WorkPackageAccessError("Cannot determine dataset files"))
           ELSE LET dataset == datasets[dataset_id]
                    file_ids == selected_file_ids(dataset, pending.creation_data.file_ids)
                IN  IF file_ids = <<>>
                    THEN failed(WorkPackageAccessError(
                                    "No existing files have been specified"))
                    ELSE /\ pending' =
                              [pending EXCEPT
                                 !.pc = "loaded",
                                 !.files = files_dict(dataset.files,
                                               list_to_set(file_ids), <<>>)]
                         /\ last' = last
    /\ UNCHANGED <<revoked, delivered, signingKey, inbox, dlq, now, datasets, uploadBoxes, workPackages, issued, grant>>

\* _create_work_package_record: the record, the insert and the response.
CreateInsert(token) ==
    /\ last = NoCall
    /\ \/ pending.pc = "loaded"
       \/ pending.pc = "checked" /\ pending.creation_data.type = UPLOAD
    /\ LET download == pending.creation_data.type = DOWNLOAD
           done == create_work_package_record(
                       pending.creation_data, pending.auth_context,
                       pending.auth_context.id, pending.expires, pending.files,
                       IF download THEN pending.creation_data.dataset_id ELSE NONE,
                       IF download THEN NONE ELSE pending.creation_data.box_id,
                       pending.access, token)
       IN  /\ workPackages' = done.work_packages
           /\ issued' = IF done.result.raised THEN issued
                         ELSE dao_insert(issued, done.result.value.id, token)
           /\ last' = [op |-> "create", creation_data |-> pending.creation_data,
                       auth_context |-> pending.auth_context,
                       access |-> done.access, result |-> done.result]
    /\ pending' = NoCreate
    /\ UNCHANGED <<revoked, delivered, signingKey, inbox, dlq, now, datasets, uploadBoxes, grant>>

\* The requests made while create is followed step by step.
StepCreationData ==
    {creation_data \in ValidCreationData :
        creation_data.file_ids \in {NoFileIds, FileIdList(<<"F1", "FX">>)}}

NextCreate ==
    \/ Tick
    \/ Respond
    \/ ChangeGrant
    \/ \E creation_data \in StepCreationData, auth_context \in AuthContexts, outcome \in OutcomesWhen(grant) : CreateCheck(creation_data, auth_context, outcome)
    \/ CreateLoad
    \/ \E token \in Secrets : CreateInsert(token)
    \/ \E dataset \in DatasetVersions : RegisterDataset(dataset)
    \/ \E dataset_id \in DatasetIds : DeleteDataset(dataset_id)
    \/ \E upload_box \in UploadBoxVersions : RegisterUploadBox(upload_box)
    \/ \E work_package_id \in WorkPackageIds, check_valid \in BOOLEAN, token \in SuppliedTokens, outcome \in OutcomesWhen(grant) : Get(work_package_id, check_valid, token, outcome)
    \/ \E work_package_id \in WorkPackageIds, check_valid \in BOOLEAN, token \in Secrets, outcome \in OutcomesWhen(grant) : GetDownloadWot(work_package_id, "F1", check_valid, token, outcome)
    \/ \E work_package_id \in WorkPackageIds, check_valid \in BOOLEAN, token \in Secrets, outcome \in OutcomesWhen(grant) : GetUploadWot(work_package_id, [work_type |-> "view", alias |-> NONE, file_id |-> NONE], "B1", check_valid, token, outcome)

SpecCreate == Init /\ [][NextCreate]_vars

------------------------------------------------------------------------------
(* The event consumer: events are published to its topics and consumed in   *)
(* the order of their publication.                                          *)

\* The number of events in flight and in the dead letter queue.
MaxEvents == 2

Event(topic, type_, key, payload, original_topic) ==
    [topic |-> topic, type_ |-> type_, key |-> key, payload |-> payload,
     headers |-> [original_topic |-> original_topic]]

UPSERTION_PAYLOAD_V1 ==
    MetadataDatasetOverview("D1", "Dataset1", "DOWNLOAD",
        <<MetadataDatasetFile("F1", ".json"), MetadataDatasetFile("F2", ".csv")>>)

UPSERTION_PAYLOAD_V2 ==
    MetadataDatasetOverview("D1", "Changed", "DOWNLOAD",
        <<MetadataDatasetFile("F2", ".csv")>>)

\* An upsertion event on the retry topic, as republished from the dead
\* letter queue.
RETRY_UPSERTION_EVENT ==
    Event(config.retry_topic, config.dataset_upsertion_type, "test-key", UPSERTION_PAYLOAD_V1,
          config.dataset_change_topic)

\* Another dataset, of one file.
UPSERTION_PAYLOAD_D2 ==
    MetadataDatasetOverview("D2", "Dataset2", "UPLOAD",
        <<MetadataDatasetFile("F3", ".bam")>>)

\* The datasets that events are about.
EventDatasetIds == {"D1", "D2"}

PublishedEvents ==
    {Event(config.dataset_change_topic, config.dataset_upsertion_type, payload.accession, payload, NONE) :
        payload \in {UPSERTION_PAYLOAD_V1, UPSERTION_PAYLOAD_V2, UPSERTION_PAYLOAD_D2}}
    \cup {Event(config.dataset_change_topic, config.dataset_upsertion_type, "test-key", BOGUS_PAYLOAD, NONE),
          Event(config.dataset_change_topic, config.dataset_deletion_type, "D1", MetadataDatasetID("D1"), NONE),
          Event(config.dataset_change_topic, config.dataset_deletion_type, "D1", BOGUS_PAYLOAD, NONE),
          Event(config.dataset_change_topic, "dataset_archived", "D1", MetadataDatasetID("D1"), NONE),
          RETRY_UPSERTION_EVENT,
          Event(config.retry_topic, config.dataset_upsertion_type, "test-key", BOGUS_PAYLOAD,
                config.dataset_change_topic),
          Event(config.upload_box_topic, "upserted", "B1",
                ResearchDataUploadBox("B1", "FB1", "Box1"), NONE),
          Event(config.upload_box_topic, "upserted", "B1",
                ResearchDataUploadBox("B1", "FB1", "Renamed"), NONE),
          Event(config.upload_box_topic, "upserted", "B2",
                ResearchDataUploadBox("B2", "FB2", "Box2"), NONE),
          Event(config.upload_box_topic, "deleted", "B1", EMPTY_PAYLOAD, NONE),
          Event(config.upload_box_topic, "deleted", "not-a-uuid", EMPTY_PAYLOAD, NONE)}

\* The topic an event is dispatched for: an event from the retry topic
\* counts as received on the topic its original_topic header names.
dispatch_topic(event) ==
    IF event.topic = config.retry_topic THEN event.headers.original_topic ELSE event.topic

\* The subscriber hands the event to the translator of its topic.
dispatch(event) ==
    IF dispatch_topic(event) = config.dataset_change_topic
    THEN IF event.type_ \in {config.dataset_upsertion_type, config.dataset_deletion_type}
         THEN consume_validated(event.payload, event.type_,
                                dispatch_topic(event), event.key)
         ELSE Handled(Return(NONE), datasets, uploadBoxes)
    ELSE IF dispatch_topic(event) = config.upload_box_topic
    THEN IF event.type_ = "upserted" THEN changed(event.key, event.payload)
         ELSE IF event.type_ = "deleted" THEN deleted(event.key)
         ELSE Handled(Return(NONE), datasets, uploadBoxes)
    ELSE Handled(Return(NONE), datasets, uploadBoxes)

\* The event the subscriber publishes to the dead letter queue topic.
dlq_event(event) ==
    Event(config.kafka_dlq_topic, event.type_, event.key, event.payload,
          dispatch_topic(event))

\* An event is published to one of the topics of the consumer.
Publish(event) ==
    /\ Len(inbox) + Len(dlq) < MaxEvents
    /\ inbox' = Append(inbox, event)
    /\ UNCHANGED <<revoked, delivered, signingKey, now, datasets, uploadBoxes, workPackages, issued, pending, grant, dlq, last>>

\* The consumer processes the next event; if that raises, the event goes to
\* the dead letter queue.
Consume ==
    /\ inbox /= <<>>
    /\ LET event == Head(inbox)
           handled == dispatch(event)
       IN  /\ inbox' = Tail(inbox)
           /\ datasets' = handled.datasets
           /\ uploadBoxes' = handled.uploadBoxes
           /\ dlq' = IF handled.result.raised
                     THEN Append(dlq, dlq_event(event))
                     ELSE dlq
           /\ last' = [op |-> "consume", event |-> event, result |-> handled.result]
    /\ UNCHANGED <<revoked, delivered, signingKey, now, workPackages, issued, pending, grant>>

GetDataset(dataset_id) ==
    /\ last = NoCall
    /\ last' = [op |-> "get_dataset", dataset_id |-> dataset_id,
                result |-> get_dataset(dataset_id)]
    /\ UNCHANGED <<revoked, delivered, signingKey, now, datasets, uploadBoxes, workPackages, issued, pending, grant, inbox, dlq>>

GetUploadBox(box_id) ==
    /\ last = NoCall
    /\ last' = [op |-> "get_upload_box", box_id |-> box_id,
                result |-> get_upload_box(box_id)]
    /\ UNCHANGED <<revoked, delivered, signingKey, now, datasets, uploadBoxes, workPackages, issued, pending, grant, inbox, dlq>>

NextEvents ==
    \/ \E event \in PublishedEvents : Publish(event)
    \/ Consume
    \/ \E dataset_id \in EventDatasetIds : GetDataset(dataset_id)
    \/ \E box_id \in BoxIds : GetUploadBox(box_id)
    \/ Respond

SpecEvents == Init /\ [][NextEvents]_vars

\* The consumer task keeps running: an event in flight is consumed.
SpecEventsFair == SpecEvents /\ WF_vars(Consume)

------------------------------------------------------------------------------
(* The event consumer with events that come a second time: the consumer     *)
(* keeps no record of what it has processed, the log of the events it has  *)
(* received is kept here to tell an older event from a newer one.          *)

\* The number of events the sources publish.
MaxDelivered == 3

\* The changes of dataset D1 that the metadata service publishes.
DatasetChanges ==
    {Event(config.dataset_change_topic, config.dataset_upsertion_type, "D1", UPSERTION_PAYLOAD_V1, NONE),
     Event(config.dataset_change_topic, config.dataset_upsertion_type, "D1", UPSERTION_PAYLOAD_V2, NONE),
     Event(config.dataset_change_topic, config.dataset_deletion_type, "D1", MetadataDatasetID("D1"), NONE)}

\* The event as it comes back on the retry topic.
reinjected(event) ==
    Event(config.retry_topic, event.type_, event.key, event.payload, event.topic)

\* The metadata service publishes a change.
PublishChange(event) ==
    /\ Len(delivered) + Len(inbox) < MaxDelivered
    /\ Publish(event)

\* An event that the consumer has received before is put on the retry topic.
Reinject(i) ==
    /\ i \in DOMAIN delivered
    /\ inbox = <<>>
    /\ inbox' = <<reinjected(delivered[i])>>
    /\ UNCHANGED <<revoked, delivered, signingKey, now, datasets, uploadBoxes, workPackages, issued, pending, grant, dlq, last>>

\* As Consume, with the log of the events received from the sources.
ConsumeLogged ==
    /\ inbox /= <<>>
    /\ LET event == Head(inbox)
           handled == dispatch(event)
       IN  /\ inbox' = Tail(inbox)
           /\ datasets' = handled.datasets
           /\ uploadBoxes' = handled.uploadBoxes
           /\ dlq' = IF handled.result.raised
                     THEN Append(dlq, dlq_event(event))
                     ELSE dlq
           /\ delivered' = IF event.topic = config.retry_topic
                           THEN delivered
                           ELSE Append(delivered, event)
           /\ last' = [op |-> "consume", event |-> event, result |-> handled.result]
    /\ UNCHANGED <<revoked, signingKey, now, workPackages, issued, pending, grant>>

NextRedelivery ==
    \/ \E event \in DatasetChanges : PublishChange(event)
    \/ \E i \in 1 .. MaxDelivered : Reinject(i)
    \/ ConsumeLogged
    \/ \E dataset_id \in DatasetIds : GetDataset(dataset_id)
    \/ Respond

SpecRedelivery == Init /\ [][NextRedelivery]_vars

------------------------------------------------------------------------------
(* The consumer with dataset events of every stage. The stage of the event  *)
(* schema is an enumeration of its own: an upsertion can name a stage that  *)
(* is no member of WorkPackageType.                                         *)

\* An upsertion of D1 whose stage is no work package type.
UPSERTION_PAYLOAD_ARCHIVE ==
    MetadataDatasetOverview("D1", "Archived", "ARCHIVE",
        <<MetadataDatasetFile("F2", ".csv")>>)

\* An upsertion of D2 whose stage is no work package type.
UPSERTION_PAYLOAD_D2_ARCHIVE ==
    MetadataDatasetOverview("D2", "Dataset2", "ARCHIVE",
        <<MetadataDatasetFile("F3", ".bam")>>)

StagedEvents ==
    {Event(config.dataset_change_topic, config.dataset_upsertion_type, payload.accession, payload, NONE) :
        payload \in {UPSERTION_PAYLOAD_V1, UPSERTION_PAYLOAD_ARCHIVE,
                     UPSERTION_PAYLOAD_D2, UPSERTION_PAYLOAD_D2_ARCHIVE}}
    \cup {Event(config.dataset_change_topic, config.dataset_upsertion_type, "test-key", BOGUS_PAYLOAD, NONE),
          Event(config.dataset_change_topic, config.dataset_deletion_type, "D1", MetadataDatasetID("D1"), NONE),
          Event(config.retry_topic, config.dataset_upsertion_type, "D1", UPSERTION_PAYLOAD_ARCHIVE,
                config.dataset_change_topic)}

NextStages ==
    \/ \E event \in StagedEvents : Publish(event)
    \/ Consume
    \/ \E dataset_id \in EventDatasetIds : GetDataset(dataset_id)
    \/ Respond

SpecStages == Init /\ [][NextStages]_vars

------------------------------------------------------------------------------
(* Two work packages: a create call that runs as a whole, and one that is   *)
(* between its awaits while the other runs.                                 *)

\* The number of work packages in the store with both.
MaxIsolated == 2

IsolatedIds == 1 .. MaxIsolated

\* The requests of the two creations: a download of all files of D1, an
\* upload to box B1.
IsolatedCreationData ==
    {creation_data \in ValidCreationData :
        /\ creation_data.file_ids = NoFileIds
        /\ creation_data.box_id \in {NONE, "B1"}}

\* create, as one step, while the store holds work packages already.
CreateIsolated(creation_data, auth_context, outcome, token) ==
    /\ last = NoCall
    /\ Cardinality(DOMAIN workPackages) < MaxIsolated
    /\ LET done == create(creation_data, auth_context, outcome, token)
       IN  /\ workPackages' = done.work_packages
           /\ issued' = IF done.result.raised THEN issued
                         ELSE dao_insert(issued, done.result.value.id, token)
           /\ last' = [op |-> "create", creation_data |-> creation_data,
                       auth_context |-> auth_context, access |-> done.access,
                       result |-> done.result]
    /\ UNCHANGED <<revoked, delivered, signingKey, inbox, dlq, now, datasets, uploadBoxes, pending, grant>>

NextIsolation ==
    \/ Respond
    \/ RegisterDataset(DATASET_V1)
    \/ RegisterUploadBox(BOX_B1)
    \/ \E creation_data \in IsolatedCreationData, token \in Secrets : CreateIsolated(creation_data, AUTH_USER, AccessGranted(35), token)
    \/ \E creation_data \in IsolatedCreationData : CreateCheck(creation_data, AUTH_USER, AccessGranted(35))
    \/ CreateLoad
    \/ \E token \in Secrets : CreateInsert(token)
    \/ \E work_package_id \in IsolatedIds, token \in Secrets, outcome \in {AccessGranted(35), AccessNone} : Get(work_package_id, TRUE, token, outcome)
    \/ \E work_package_id \in IsolatedIds, token \in Secrets : GetDownloadWot(work_package_id, "F1", TRUE, token, AccessGranted(35))
    \/ \E work_package_id \in IsolatedIds, token \in Secrets : GetUploadWot(work_package_id, [work_type |-> "view", alias |-> NONE, file_id |-> NONE], "B1", TRUE, token, AccessGranted(35))

SpecIsolation == Init /\ [][NextIsolation]_vars

------------------------------------------------------------------------------
(* The token methods with a record of the re-checks: the work packages for  *)
(* which the access service gave no expiry date are kept in revoked.        *)

\* The work packages seen revoked, after a call with this outcome.
seen_revoked(work_package_id, done) ==
    IF done.access.called /\ done.access.outcome = AccessNone
    THEN revoked \cup {work_package_id}
    ELSE revoked

GetDownloadWotLogged(work_package_id, file_id, work_package_access_token, outcome) ==
    /\ last = NoCall
    /\ LET done == get_download_wot(work_package_id, file_id, TRUE, work_package_access_token, outcome)
       IN  /\ workPackages' = done.work_packages
           /\ revoked' = seen_revoked(work_package_id, done)
           /\ last' = [op |-> "get_download_wot",
                       work_package_id |-> work_package_id,
                       file_id |-> file_id,
                       check_valid |-> TRUE,
                       work_package_access_token |-> work_package_access_token,
                       access |-> done.access, result |-> done.result]
    /\ UNCHANGED <<delivered, signingKey, inbox, dlq, now, datasets, uploadBoxes, issued, pending, grant>>

GetUploadWotLogged(work_package_id, request, box_id, work_package_access_token, outcome) ==
    /\ last = NoCall
    /\ LET done == get_upload_wot(work_package_id, request.work_type, box_id, request.alias, request.file_id, TRUE, work_package_access_token, outcome)
       IN  /\ workPackages' = done.work_packages
           /\ revoked' = seen_revoked(work_package_id, done)
           /\ last' = [op |-> "get_upload_wot",
                       work_package_id |-> work_package_id,
                       work_type |-> request.work_type,
                       box_id |-> box_id,
                       alias |-> request.alias,
                       file_id |-> request.file_id,
                       check_valid |-> TRUE,
                       work_package_access_token |-> work_package_access_token,
                       access |-> done.access, result |-> done.result]
    /\ UNCHANGED <<delivered, signingKey, inbox, dlq, now, datasets, uploadBoxes, issued, pending, grant>>

NextRevocation ==
    \/ Tick
    \/ Respond
    \/ RegisterDataset(DATASET_V1)
    \/ RegisterUploadBox(BOX_B1)
    \/ \E creation_data \in IsolatedCreationData, token \in Secrets : Create(creation_data, AUTH_USER, AccessGranted(35), token)
    \/ \E work_package_id \in WorkPackageIds, token \in Secrets, outcome \in AccessOutcomes : GetDownloadWotLogged(work_package_id, "F1", token, outcome)
    \/ \E work_package_id \in WorkPackageIds, token \in Secrets, outcome \in AccessOutcomes : GetUploadWotLogged(work_package_id, [work_type |-> "view", alias |-> NONE, file_id |-> NONE], "B1", token, outcome)

SpecRevocation == Init /\ [][NextRevocation]_vars

------------------------------------------------------------------------------
(* The access adapter on its own: each call is one request to the access   *)
(* API, answered by a response.                                             *)

CheckDownloadAccess(response) ==
    /\ last = NoCall
    /\ last' = [op |-> "check_download_access", response |-> response,
                result |-> check_download_access(response)]
    /\ UNCHANGED <<revoked, delivered, signingKey, now, datasets, uploadBoxes, workPackages, issued, pending, grant, inbox, dlq>>

GetAccessibleDatasetsWithExpiration(response) ==
    /\ last = NoCall
    /\ last' = [op |-> "get_accessible_datasets_with_expiration",
                response |-> response,
                result |-> get_accessible_datasets_with_expiration(response)]
    /\ UNCHANGED <<revoked, delivered, signingKey, now, datasets, uploadBoxes, workPackages, issued, pending, grant, inbox, dlq>>

CheckUploadAccess(response) ==
    /\ last = NoCall
    /\ last' = [op |-> "check_upload_access", response |-> response,
                result |-> check_upload_access(response)]
    /\ UNCHANGED <<revoked, delivered, signingKey, now, datasets, uploadBoxes, workPackages, issued, pending, grant, inbox, dlq>>

GetAccessibleBoxesWithExpiration(response) ==
    /\ last = NoCall
    /\ last' = [op |-> "get_accessible_boxes_with_expiration",
                response |-> response,
                result |-> get_accessible_boxes_with_expiration(response)]
    /\ UNCHANGED <<revoked, delivered, signingKey, now, datasets, uploadBoxes, workPackages, issued, pending, grant, inbox, dlq>>

NextAccess ==
    \/ \E response \in AccessResponses : CheckDownloadAccess(response)
    \/ \E response \in ListResponses : GetAccessibleDatasetsWithExpiration(response)
    \/ \E response \in AccessResponses : CheckUploadAccess(response)
    \/ \E response \in ListResponses : GetAccessibleBoxesWithExpiration(response)
    \/ Respond

SpecAccess == Init /\ [][NextAccess]_vars

------------------------------------------------------------------------------
(* wps.adapters.inbound.fastapi_.routes: each route checks what it was      *)
(* given, calls the repository and turns the outcome into an HTTP response *)

\* HTTPException(status_code=..., detail=...)
HTTPException(status_code, detail) ==
    [status_code |-> status_code, detail |-> detail, headers |-> <<>>]

\* JSONResponse(content=..., status_code=..., headers=...), and the response
\* FastAPI builds from the value a route returns.
JSONResponse(content, status_code, headers) ==
    [status_code |-> status_code, content |-> content, headers |-> headers]

\* The repository was not called by the route.
NoRepositoryCall == [called |-> FALSE]

\* The repository was called, with this outcome.
RepositoryCall(done) ==
    [called |-> TRUE, access |-> done.access, result |-> done.result]

\* As handled, answering an error of the repository with the status code
\* of the route.
handled_as_success(result, status_code, headers) ==
    IF result.raised
    THEN JSONResponse(result.msg, status_code, headers)
    ELSE JSONResponse(result.value, status_code, headers)

\* try: <repository call> except repository.WorkPackageAccessError as error:
\* raise HTTPException(status_code=403, detail=str(error)); an exception of
\* another class is not caught by the route.
handled(result, status_code, headers) ==
    IF ~result.raised
    THEN JSONResponse(result.value, status_code, headers)
    ELSE IF result.exc = "WorkPackageAccessError"
    THEN HTTPException(403, result.msg)
    ELSE HTTPException(500, "Internal Server Error")

\* {"Cache-Control": f"max-age={WORK_ORDER_TOKEN_VALID_SECONDS}, private"}
cache_control_header ==
    <<<<"Cache-Control",
        "max-age=" \o ToString(WORK_ORDER_TOKEN_VALID_SECONDS) \o ", private">>>>

\* As same_user, for any user.
same_user_or_not(user_id, auth_context) == TRUE

\* not (str(user_id) != auth_context.id)
same_user(user_id, auth_context) == user_id = auth_context.id

\* The user ids of the path: the user of the auth context and another one.
PathUserIds == UserIds \cup {"u2"}

\* The token requests that exist as objects: what the constructor accepts.
ValidTokenRequests ==
    {UploadWorkOrderTokenRequest(raw).value :
        raw \in {r \in TokenRequestInputs : ~UploadWorkOrderTokenRequest(r).raised}}

\* POST /work-packages
RouteCreateWorkPackage(creation_data, auth_context, outcome, token) ==
    /\ last = NoCall
    /\ Cardinality(DOMAIN workPackages) < MaxPackages
    /\ LET done == create(creation_data, auth_context, outcome, token)
       IN  /\ workPackages' = done.work_packages
           /\ issued' = IF done.result.raised THEN issued
                         ELSE dao_insert(issued, done.result.value.id, token)
           /\ last' = [op |-> "routes.create_work_package",
                       creation_data |-> creation_data,
                       auth_context |-> auth_context,
                       repository |-> RepositoryCall(done),
                       response |-> handled(done.result, 201, <<>>)]
    /\ UNCHANGED <<revoked, delivered, signingKey, inbox, dlq, now, datasets, uploadBoxes, pending, grant>>

\* GET /work-packages/{work_package_id}
RouteGetWorkPackage(work_package_id, work_package_access_token, outcome) ==
    /\ last = NoCall
    /\ IF ~Truthy(work_package_access_token)
       THEN /\ last' = [op |-> "routes.get_work_package",
                        work_package_id |-> work_package_id,
                        work_package_access_token |-> work_package_access_token,
                        repository |-> NoRepositoryCall,
                        response |-> handled(WorkPackageAccessError(""), 200, <<>>)]
            /\ UNCHANGED workPackages
       ELSE LET done == get(work_package_id, TRUE, work_package_access_token, outcome)
                package == done.result.value
                details == IF done.result.raised THEN done.result
                           ELSE Return([type |-> package.type,
                                        files |-> package.files,
                                        box_id |-> package.box_id,
                                        created |-> package.created,
                                        expires |-> package.expires])
            IN  /\ workPackages' = done.work_packages
                /\ last' = [op |-> "routes.get_work_package",
                            work_package_id |-> work_package_id,
                            work_package_access_token |-> work_package_access_token,
                            repository |-> RepositoryCall(done),
                            response |-> handled(details, 200, <<>>)]
    /\ UNCHANGED <<revoked, delivered, signingKey, inbox, dlq, now, datasets, uploadBoxes, issued, pending, grant>>

\* POST /work-packages/{work_package_id}/files/{accession}/work-order-tokens
RouteCreateDownloadWorkOrderToken(work_package_id, accession, work_package_access_token, outcome) ==
    /\ last = NoCall
    /\ IF ~(Truthy(accession) /\ Truthy(work_package_access_token))
       THEN /\ last' = [op |-> "routes.create_download_work_order_token",
                        work_package_id |-> work_package_id,
                        accession |-> accession,
                        work_package_access_token |-> work_package_access_token,
                        repository |-> NoRepositoryCall,
                        response |-> handled(WorkPackageAccessError(""), 201,
                                             cache_control_header)]
            /\ UNCHANGED workPackages
       ELSE LET done == get_download_wot(work_package_id, accession, TRUE, work_package_access_token, outcome)
            IN  /\ workPackages' = done.work_packages
                /\ last' = [op |-> "routes.create_download_work_order_token",
                            work_package_id |-> work_package_id,
                            accession |-> accession,
                            work_package_access_token |-> work_package_access_token,
                            repository |-> RepositoryCall(done),
                            response |-> handled(done.result, 201,
                                                 cache_control_header)]
    /\ UNCHANGED <<revoked, delivered, signingKey, inbox, dlq, now, datasets, uploadBoxes, issued, pending, grant>>

\* POST /work-packages/{work_package_id}/boxes/{box_id}/work-order-tokens
RouteCreateUploadWorkOrderToken(work_package_id, box_id, wot_request, work_package_access_token, outcome) ==
    /\ last = NoCall
    /\ IF ~Truthy(work_package_access_token)
       THEN /\ last' = [op |-> "routes.create_upload_work_order_token",
                        work_package_id |-> work_package_id,
                        box_id |-> box_id,
                        wot_request |-> wot_request,
                        work_package_access_token |-> work_package_access_token,
                        repository |-> NoRepositoryCall,
                        response |-> handled(WorkPackageAccessError(""), 201,
                                             cache_control_header)]
            /\ UNCHANGED workPackages
       ELSE LET done == get_upload_wot(work_package_id, wot_request.work_type, box_id, wot_request.alias, wot_request.file_id, TRUE, work_package_access_token, outcome)
            IN  /\ workPackages' = done.work_packages
                /\ last' = [op |-> "routes.create_upload_work_order_token",
                            work_package_id |-> work_package_id,
                            box_id |-> box_id,
                            wot_request |-> wot_request,
                            work_package_access_token |-> work_package_access_token,
                            repository |-> RepositoryCall(done),
                            response |-> handled(done.result, 201,
                                                 cache_control_header)]
    /\ UNCHANGED <<revoked, delivered, signingKey, inbox, dlq, now, datasets, uploadBoxes, issued, pending, grant>>

\* GET /users/{user_id}/datasets
RouteGetDatasets(user_id, auth_context, listing) ==
    /\ last = NoCall
    /\ LET result == get_datasets(auth_context, listing)
       IN  last' = IF ~same_user(user_id, auth_context)
                   THEN [op |-> "routes.get_datasets", user_id |-> user_id,
                         auth_context |-> auth_context,
                         repository |-> NoRepositoryCall,
                         response |-> handled(WorkPackageAccessError(
                                          "Not authorized to get datasets"), 200, <<>>)]
                   ELSE [op |-> "routes.get_datasets", user_id |-> user_id,
                         auth_context |-> auth_context,
                         repository |-> [called |-> TRUE, listing |-> listing,
                                         result |-> result],
                         response |-> handled(result, 200, <<>>)]
    /\ UNCHANGED <<revoked, delivered, signingKey, inbox, dlq, now, datasets, uploadBoxes, workPackages, issued, pending, grant>>

\* GET /users/{user_id}/boxes
RouteGetUploadBoxes(user_id, auth_context, listing) ==
    /\ last = NoCall
    /\ LET result == get_upload_boxes(auth_context, listing)
       IN  last' = IF ~same_user(user_id, auth_context)
                   THEN [op |-> "routes.get_upload_boxes", user_id |-> user_id,
                         auth_context |-> auth_context,
                         repository |-> NoRepositoryCall,
                         response |-> handled(WorkPackageAccessError(
                                          "Not authorized to get upload boxes"), 200, <<>>)]
                   ELSE [op |-> "routes.get_upload_boxes", user_id |-> user_id,
                         auth_context |-> auth_context,
                         repository |-> [called |-> TRUE, listing |-> listing,
                                         result |-> result],
                         response |-> handled(result, 200, <<>>)]
    /\ UNCHANGED <<revoked, delivered, signingKey, inbox, dlq, now, datasets, uploadBoxes, workPackages, issued, pending, grant>>

NextRoutes ==
    \/ Tick
    \/ Respond
    \/ \E dataset \in DatasetVersions : RegisterDataset(dataset)
    \/ \E upload_box \in UploadBoxVersions : RegisterUploadBox(upload_box)
    \/ \E creation_data \in ValidCreationData, auth_context \in AuthContexts, outcome \in AccessOutcomes, token \in Secrets : RouteCreateWorkPackage(creation_data, auth_context, outcome, token)
    \/ \E work_package_id \in AskedWorkPackageIds, token \in SuppliedTokens, outcome \in AccessOutcomes : RouteGetWorkPackage(work_package_id, token, outcome)
    \/ \E work_package_id \in AskedWorkPackageIds, accession \in AskedFileIds, token \in SuppliedTokens, outcome \in AccessOutcomes : RouteCreateDownloadWorkOrderToken(work_package_id, accession, token, outcome)
    \/ \E work_package_id \in AskedWorkPackageIds, box_id \in AskedBoxIds, wot_request \in ValidTokenRequests, token \in SuppliedTokens, outcome \in AccessOutcomes : RouteCreateUploadWorkOrderToken(work_package_id, box_id, wot_request, token, outcome)
    \/ \E user_id \in PathUserIds, auth_context \in AuthContexts, listing \in DatasetListings : RouteGetDatasets(user_id, auth_context, listing)
    \/ \E user_id \in PathUserIds, auth_context \in AuthContexts, listing \in BoxListings : RouteGetUploadBoxes(user_id, auth_context, listing)

SpecRoutes == Init /\ [][NextRoutes]_vars

------------------------------------------------------------------------------
(* The service from its start: the repository is constructed from the      *)
(* configured signing key, and serves calls once it exists.                *)

\* No repository has been constructed.
NoRepository == [kid |-> NONE, has_private |-> FALSE]

\* The keys work_package_signing_key is configured with.
ConfiguredKeys == {SIGNING_KEY, SIGNING_KEY_PUBLIC}

\* As WorkPackageRepository, without the test of has_private.
WorkPackageRepository_unchecked(key) ==
    [result |-> Return(NONE), signing_key |-> key]

\* WorkPackageRepository.__init__: the outcome, and the signing key of the
\* instance if there is one.
WorkPackageRepository(key) ==
    IF ~key.has_private
    THEN [result |-> Raise("KeyError", "No private work order signing key found."),
          signing_key |-> NoRepository]
    ELSE [result |-> Return(NONE), signing_key |-> key]

InitStart ==
    /\ revoked = {}
    /\ delivered = <<>>
    /\ signingKey = NoRepository
    /\ now = 0
    /\ datasets = EmptyCollection
    /\ uploadBoxes = EmptyCollection
    /\ workPackages = EmptyCollection
    /\ issued = EmptyCollection
    /\ pending = NoCreate
    /\ grant = "granted"
    /\ last = NoCall
    /\ inbox = <<>>
    /\ dlq = <<>>

\* The service is started with a configured key.
Construct(key) ==
    /\ last = NoCall
    /\ signingKey = NoRepository
    /\ LET constructed == WorkPackageRepository(key)
       IN  /\ signingKey' = constructed.signing_key
           /\ last' = [op |-> "WorkPackageRepository", key |-> key,
                       result |-> constructed.result]
    /\ UNCHANGED <<revoked, delivered, now, datasets, uploadBoxes, workPackages, issued, pending, grant, inbox, dlq>>

\* The repository that was constructed serves a call.
Serve ==
    /\ signingKey /= NoRepository
    /\ Next

NextStart ==
    \/ \E key \in ConfiguredKeys : Construct(key)
    \/ Respond
    \/ Serve

SpecStart == InitStart /\ [][NextStart]_vars

------------------------------------------------------------------------------
(* Properties of the work order tokens *)

\* C1: get_download_wot and get_upload_wot called with check_valid return a
\* token only if at that call created <= now < expires holds for the work
\* package and the access check, made for the user and the dataset or box of
\* the work package, gave an expiry date; for an expired work package and
\* for a revoked access the call raises a WorkPackageAccessError.
C1_WotOnlyWhileValid ==
    (last.op \in {"get_download_wot", "get_upload_wot"} /\ last.check_valid)
    => /\ ~last.result.raised
          => /\ last.work_package_id \in DOMAIN workPackages
             /\ LET wp == workPackages[last.work_package_id]
                IN  /\ wp.created <= now
                    /\ now < wp.expires
                    /\ last.access.called
                    /\ last.access.outcome.kind = "expiry"
                    /\ last.access.user_id = wp.user_id
                    /\ last.access.kind = wp.type
                    /\ last.access.resource_id =
                          (IF wp.type = "download" THEN wp.dataset_id ELSE wp.box_id)
       /\ (/\ last.work_package_id \in DOMAIN workPackages
           /\ LET wp == workPackages[last.work_package_id]
              IN  now < wp.created \/ now >= wp.expires)
          => (last.result.raised /\ last.result.exc = "WorkPackageAccessError")
       /\ (last.access.called /\ last.access.outcome.kind = "none")
          => (last.result.raised /\ last.result.exc = "WorkPackageAccessError")

\* A work order token was returned by a call with check_valid.
C1_Witness ==
    /\ last.op \in {"get_download_wot", "get_upload_wot"}
    /\ last.check_valid
    /\ ~last.result.raised
    /\ last.result.value.plain.signed_by = SIGNING_KEY

\* C2: get, get_download_wot and get_upload_wot called for a stored work
\* package with a supplied access token whose hash differs from the stored
\* token_hash raise WorkPackageAccessError("Invalid work package access
\* token") and return nothing; a supplied token passes this check exactly if
\* it is the secret create issued for that work package.
C2_InvalidTokenRejected ==
    (/\ last.op \in {"get", "get_download_wot", "get_upload_wot"}
     /\ last.work_package_id \in DOMAIN workPackages
     /\ Truthy(last.work_package_access_token))
    => LET wp == workPackages[last.work_package_id]
           rejected ==
               /\ last.result.raised
               /\ last.result.exc = "WorkPackageAccessError"
               /\ last.result.msg = "Invalid work package access token"
       IN  /\ hash_token(last.work_package_access_token) /= wp.token_hash
              => rejected
           /\ ~rejected
              <=> last.work_package_access_token = issued[last.work_package_id]

\* A work package was returned to a caller that supplied the issued secret,
\* while another secret exists that the call would have rejected.
C2_Witness ==
    /\ last.op = "get"
    /\ ~last.result.raised
    /\ Truthy(last.work_package_access_token)
    /\ last.work_package_access_token = issued[last.work_package_id]
    /\ \E other \in Secrets : other /= issued[last.work_package_id]

\* C3: the box_id of every upload work order token get_upload_wot returns,
\* for the work types create, upload, close, delete and view, is the
\* file_upload_box_id of the upload box stored under the requested box_id,
\* not the id of the research data upload box.
C3_UploadWotBoxId ==
    (last.op = "get_upload_wot" /\ ~last.result.raised)
    => /\ last.box_id \in DOMAIN uploadBoxes
       /\ last.work_type \in {"create", "upload", "close", "delete", "view"}
       /\ LET claims == last.result.value.plain.claims
          IN  /\ claims.work_type = last.work_type
              /\ claims.box_id = uploadBoxes[last.box_id].file_upload_box_id
              /\ claims.box_id /= last.box_id

\* An upload work order token of type close was returned.
C3_Witness ==
    /\ last.op = "get_upload_wot"
    /\ ~last.result.raised
    /\ last.work_type = "close"
    /\ last.result.value.plain.claims.box_id = "FB1"

\* C4: get_download_wot returns a token only if the work package is of type
\* DOWNLOAD and the requested file id is a key of its files; for a stored
\* work package of another type or without that key it raises a
\* WorkPackageAccessError.
C4_DownloadWotOnlyForContainedFile ==
    (last.op = "get_download_wot" /\ last.work_package_id \in DOMAIN workPackages)
    => LET wp == workPackages[last.work_package_id]
           contained ==
               /\ wp.type = "download"
               /\ \E i \in DOMAIN wp.files : wp.files[i][1] = last.file_id
       IN  /\ ~last.result.raised
              => (contained /\ last.result.value.plain.claims.file_id = last.file_id)
           /\ ~contained
              => (last.result.raised /\ last.result.exc = "WorkPackageAccessError")

\* A download work order token was returned for a file of a work package
\* that leaves out another file of the registered dataset.
C4_Witness ==
    /\ last.op = "get_download_wot"
    /\ ~last.result.raised
    /\ last.file_id = "F1"
    /\ workPackages[last.work_package_id].files = << <<"F1", ".json">> >>
    /\ "D1" \in DOMAIN datasets
    /\ \E i \in DOMAIN datasets["D1"].files : datasets["D1"].files[i].id = "F2"

------------------------------------------------------------------------------
(* Properties of create *)

\* C5: a call of create, get, get_download_wot or get_upload_wot whose access
\* check raises an AccessCheckError raises a WorkPackageAccessError saying
\* "Failed to check ... access permission", returns nothing and leaves the
\* work packages as they were.
C5_AccessCheckErrorFails ==
    [][(/\ last'.op \in {"create", "get", "get_download_wot", "get_upload_wot"}
        /\ last'.access.called
        /\ last'.access.outcome.kind = "raise")
       => /\ last'.result.raised
          /\ last'.result.exc = "WorkPackageAccessError"
          /\ last'.result.msg =
                (IF last'.access.kind = "download"
                 THEN "Failed to check dataset access permission"
                 ELSE "Failed to check upload box access permission")
          /\ workPackages' = workPackages]_vars

\* create was called, and the access check raised an AccessCheckError.
C5_Witness ==
    /\ last.op = "create"
    /\ last.access.called
    /\ last.access.outcome.kind = "raise"

\* C6: after a successful create the stored work package has expires =
\* min(created + work_package_valid_days, the expiry date the access check
\* gave), and the response carries the same expires.
C6_ExpiresIsMinimum ==
    (last.op = "create" /\ ~last.result.raised)
    => /\ last.result.value.id \in DOMAIN workPackages
       /\ LET wp == workPackages[last.result.value.id]
              granted == last.access.outcome.at
          IN  /\ wp.created = now
              /\ wp.expires <= wp.created + 30
              /\ wp.expires <= granted
              /\ wp.expires = wp.created + 30 \/ wp.expires = granted
              /\ last.result.value.expires = wp.expires

\* A work package was created whose expires is the expiry date of the grant,
\* earlier than created + work_package_valid_days.
C6_Witness ==
    /\ last.op = "create"
    /\ ~last.result.raised
    /\ last.result.value.expires = last.access.outcome.at
    /\ last.result.value.expires < now + 30

\* C7: every stored work package has created <= expires.
C7_CreatedBeforeExpires ==
    \A id_ \in DOMAIN workPackages :
        workPackages[id_].created <= workPackages[id_].expires

\* C8: after a successful create the token of the response is the secret,
\* sealed to the public key of the request, whose hash is the token_hash of
\* the work package stored under the returned id; the secret itself is in no
\* stored document.
C8_OnlyHashStored ==
    /\ (last.op = "create" /\ ~last.result.raised)
       => /\ last.result.value.id \in DOMAIN workPackages
          /\ LET wp == workPackages[last.result.value.id]
                 token == last.result.value.token
             IN  /\ token.sealed_to = last.creation_data.user_public_crypt4gh_key
                 /\ token.sealed_to = wp.user_public_crypt4gh_key
                 /\ token.plain \in Secrets
                 /\ wp.token_hash = "sha256:" \o token.plain
                 /\ issued[wp.id] = token.plain
    /\ \A id_ \in DOMAIN workPackages :
          LET wp == workPackages[id_]
          IN  \A secret \in Secrets :
                secret \notin {wp.token_hash, wp.user_public_crypt4gh_key,
                               wp.user_id, wp.full_user_name, wp.email,
                               wp.dataset_id, wp.box_id, wp.type}
    /\ \A id_ \in DOMAIN datasets :
          \A secret \in Secrets : secret \notin {datasets[id_].id, datasets[id_].title}
    /\ \A id_ \in DOMAIN uploadBoxes :
          \A secret \in Secrets :
             secret \notin {uploadBoxes[id_].id, uploadBoxes[id_].title,
                            uploadBoxes[id_].file_upload_box_id}

\* A work package was created and its sealed secret handed out.
C8_Witness ==
    /\ last.op = "create"
    /\ ~last.result.raised
    /\ last.result.value.token.plain = "s2"
    /\ workPackages[last.result.value.id].token_hash = "sha256:s2"

\* C9: WorkPackageCreationData and WorkPackage accept type DOWNLOAD only with
\* dataset_id set and box_id not set, and type UPLOAD only with box_id set
\* and dataset_id not set; data that break a rule give a validation error,
\* and the message of the validator names every rule broken, "is required"
\* before "shouldn't be provided", joined with "; "; every stored work
\* package keeps the rules.
C9_TypeDecidesIds ==
    /\ last.op \in {"WorkPackageCreationData", "WorkPackage"}
       => LET is_set(x) == x /= "<None>" /\ x /= ""
              dataset_set == is_set(last.raw.dataset_id)
              box_set == is_set(last.raw.box_id)
              download == last.raw.type = "download"
              rules_kept == IF download THEN dataset_set /\ ~box_set
                                        ELSE box_set /\ ~dataset_set
              fields_valid ==
                  \/ last.op = "WorkPackage"
                  \/ last.raw.user_public_crypt4gh_key \in
                        {[pem |-> "", payload |-> "k1"],
                         [pem |-> "CRYPT4GH PUBLIC KEY", payload |-> "k1"]}
              message ==
                  IF download
                  THEN IF ~dataset_set /\ box_set
                       THEN "dataset_id is required for download work packages; box_id shouldn't be provided for download work packages"
                       ELSE IF ~dataset_set
                       THEN "dataset_id is required for download work packages"
                       ELSE "box_id shouldn't be provided for download work packages"
                  ELSE IF ~box_set /\ dataset_set
                       THEN "box_id is required for upload work packages; dataset_id shouldn't be provided for upload work packages"
                       ELSE IF ~box_set
                       THEN "box_id is required for upload work packages"
                       ELSE "dataset_id shouldn't be provided for upload work packages"
          IN  /\ ~last.result.raised => rules_kept
              /\ ~rules_kept
                 => (last.result.raised /\ last.result.exc = "ValidationError")
              /\ (~rules_kept /\ fields_valid) => last.result.msg = message
              /\ (rules_kept /\ fields_valid) => ~last.result.raised
    /\ \A id_ \in DOMAIN workPackages :
          LET wp == workPackages[id_]
          IN  IF wp.type = "download"
              THEN wp.dataset_id \notin {"<None>", ""} /\ wp.box_id = "<None>"
              ELSE wp.box_id \notin {"<None>", ""} /\ wp.dataset_id = "<None>"

\* A WorkPackageCreationData of type download without dataset_id and with
\* box_id was refused with both messages.
C9_Witness ==
    /\ last.op = "WorkPackageCreationData"
    /\ last.raw.type = "download"
    /\ last.raw.dataset_id = "<None>"
    /\ last.raw.box_id = "B1"
    /\ last.result.raised
    /\ last.result.msg = "dataset_id is required for download work packages; box_id shouldn't be provided for download work packages"

\* C10: a create of type download whose access check gave an expiry date,
\* for a registered dataset, stores as files the ids and extensions of those
\* files of the dataset whose id is in file_ids (all of them when file_ids is
\* None), in the order of the dataset; ids that are not in the dataset are
\* dropped; when no file remains it raises WorkPackageAccessError("No
\* existing files have been specified") and stores nothing.
C10_FilesOfDownloadPackage ==
    [][(/\ last'.op = "create"
        /\ last'.creation_data.type = "download"
        /\ last'.access.called
        /\ last'.access.outcome.kind = "expiry"
        /\ last'.creation_data.dataset_id \in DOMAIN datasets)
       => LET dataset == datasets[last'.creation_data.dataset_id]
              file_ids == last'.creation_data.file_ids
              chosen ==
                  {i \in DOMAIN dataset.files :
                      \/ ~file_ids.given
                      \/ \E j \in DOMAIN file_ids.ids :
                            file_ids.ids[j] = dataset.files[i].id}
          IN  IF chosen = {}
              THEN /\ last'.result.raised
                   /\ last'.result.exc = "WorkPackageAccessError"
                   /\ last'.result.msg = "No existing files have been specified"
                   /\ workPackages' = workPackages
              ELSE /\ ~last'.result.raised
                   /\ last'.result.value.id \in DOMAIN workPackages'
                   /\ last'.result.value.id \notin DOMAIN workPackages
                   /\ LET files == workPackages'[last'.result.value.id].files
                      IN  /\ Len(files) = Cardinality(chosen)
                          /\ \A i \in chosen :
                                files[Cardinality({c \in chosen : c <= i})] =
                                    <<dataset.files[i].id, dataset.files[i].extension>>
      ]_vars

\* A download work package was created from a request that names a file of
\* the dataset and a file the dataset does not have.
C10_Witness ==
    /\ last.op = "create"
    /\ ~last.result.raised
    /\ last.creation_data.file_ids = [given |-> TRUE, ids |-> <<"F1", "FX">>]
    /\ workPackages[last.result.value.id].files = << <<"F1", ".json">> >>

------------------------------------------------------------------------------
(* Properties of revocation and of the stores *)

\* C11: whenever get, get_download_wot or get_upload_wot, called with
\* check_valid for a stored work package, makes the access check and the check
\* gives None, the call raises a WorkPackageAccessError with the message
\* "Download access has been revoked" for a download work package and "Upload
\* access has been revoked" for an upload work package, and returns nothing.
C11_RevokedMessage ==
    (/\ last.op \in {"get", "get_download_wot", "get_upload_wot"}
     /\ last.access.called
     /\ last.access.outcome.kind = "none")
    => /\ last.check_valid
       /\ last.work_package_id \in DOMAIN workPackages
       /\ last.result.raised
       /\ last.result.exc = "WorkPackageAccessError"
       /\ last.result.msg =
             (IF workPackages[last.work_package_id].type = "download"
              THEN "Download access has been revoked"
              ELSE "Upload access has been revoked")

\* An upload work order token was refused because the access to the box of
\* the work package is revoked.
C11_Witness ==
    /\ last.op = "get_upload_wot"
    /\ last.access.called
    /\ last.access.outcome.kind = "none"
    /\ last.result.raised
    /\ last.result.msg = "Upload access has been revoked"

\* C12: within a create call the work package is inserted only after the
\* access check has given an expiry date and, for a download, after the
\* dataset was loaded and a non-empty set of files computed; the response is
\* given only with the insert; a create that raises (malformed user id,
\* failed access check, no access, dataset not found, no files) leaves the
\* work packages as they were.
C12_InsertAfterChecks ==
    [][/\ workPackages' /= workPackages
          => /\ pending.pc \in {"checked", "loaded"}
             /\ pending.access.called
             /\ pending.access.outcome.kind = "expiry"
             /\ pending.creation_data.type = "download"
                => /\ pending.pc = "loaded"
                   /\ pending.files /= <<>>
             /\ last'.op = "create"
             /\ ~last'.result.raised
             /\ DOMAIN workPackages' = DOMAIN workPackages \cup {last'.result.value.id}
             /\ \A id_ \in DOMAIN workPackages : workPackages'[id_] = workPackages[id_]
       /\ (last'.op = "create" /\ last = [op |-> "none"])
          => IF last'.result.raised
             THEN /\ workPackages' = workPackages
                  /\ last'.result.exc = "WorkPackageAccessError"
                  /\ last'.result.msg \in
                        {"Malformed user ID supplied",
                         "Failed to check dataset access permission",
                         "Failed to check upload box access permission",
                         "Missing dataset access permission",
                         "Missing upload box access permission",
                         "Cannot determine dataset files",
                         "No existing files have been specified"}
             ELSE /\ last'.result.value.id \notin DOMAIN workPackages
                  /\ last'.result.value.id \in DOMAIN workPackages'
      ]_vars

\* A download work package was inserted although its dataset was deleted
\* after create had loaded it.
C12_Witness ==
    /\ last.op = "create"
    /\ ~last.result.raised
    /\ last.creation_data.type = "download"
    /\ last.result.value.id \in DOMAIN workPackages
    /\ "D1" \notin DOMAIN datasets

\* C13: a create whose access check gave an expiry date inserts the work
\* package and returns its token also when the grant is revoked before the
\* insert (it then fails only for want of the dataset or of files); every get, get_download_wot and get_upload_wot with check_valid
\* made while the grant is revoked raises a WorkPackageAccessError, which
\* says "... access has been revoked" when the access check is reached and
\* answers, so that no work order token is returned then.
C13_RevokedAfterCheck ==
    [][/\ (/\ last'.op = "create"
           /\ last = [op |-> "none"]
           /\ pending.pc \in {"checked", "loaded"}
           /\ grant = "revoked")
          => IF last'.result.raised
             THEN /\ pending.pc = "checked"
                  /\ pending.creation_data.type = "download"
                  /\ last'.result.msg \in {"Cannot determine dataset files",
                                           "No existing files have been specified"}
             ELSE /\ last'.result.value.id \in DOMAIN workPackages'
                  /\ last'.result.value.token.plain \in Secrets
       /\ (/\ last'.op \in {"get", "get_download_wot", "get_upload_wot"}
           /\ last = [op |-> "none"]
           /\ last'.check_valid
           /\ grant = "revoked")
          => /\ last'.result.raised
             /\ last'.result.exc = "WorkPackageAccessError"
             /\ (last'.access.called /\ last'.access.outcome.kind = "none")
                => last'.result.msg \in {"Download access has been revoked",
                                         "Upload access has been revoked"}
      ]_vars

\* The grant was revoked between the access check and the insert of a
\* create, and the work package was inserted and its token returned.
C13_Witness ==
    /\ last.op = "create"
    /\ ~last.result.raised
    /\ last.access.outcome.kind = "expiry"
    /\ grant = "revoked"
    /\ last.result.value.id \in DOMAIN workPackages

------------------------------------------------------------------------------
\* C14: every work package once inserted stays in the store with all its
\* fields unchanged, whatever is called afterwards; the collection changes
\* only by the insert of a successful create, which adds the one document it
\* returns; and get, the minting of work order tokens and the listings
\* change none of the three collections.
C14_WorkPackagesOnlyInserted ==
    [][/\ \A id_ \in DOMAIN workPackages :
            /\ id_ \in DOMAIN workPackages'
            /\ workPackages'[id_] = workPackages[id_]
       /\ workPackages' /= workPackages
            => /\ last'.op = "create"
               /\ ~last'.result.raised
               /\ DOMAIN workPackages' =
                      (DOMAIN workPackages) \cup {last'.result.value.id}
       /\ (/\ last = NoCall
           /\ last'.op \in {"get", "get_download_wot", "get_upload_wot",
                             "get_datasets", "get_upload_boxes"})
            => UNCHANGED <<datasets, uploadBoxes, workPackages>>]_vars

\* A download work package is still stored after its dataset was deleted and
\* after it expired, when a work order token is refused for it.
C14_Witness ==
    /\ last.op = "get_download_wot"
    /\ last.check_valid
    /\ last.result.raised
    /\ last.result.msg = "Work package has expired"
    /\ last.work_package_id \in DOMAIN workPackages
    /\ workPackages[last.work_package_id].dataset_id = "D1"
    /\ ~dao_has(datasets, "D1")

------------------------------------------------------------------------------
------------------------------------------------------------------------------
\* C16: register_dataset and register_upload_box never fail; afterwards the
\* collection holds under the id of the entity the entity just registered,
\* whether or not the id was stored before, and every other document as it
\* was; registering the same entity once more changes nothing.
C16_RegisterIsUpsert ==
    [][/\ (last = NoCall /\ last'.op = "register_dataset")
            => LET dataset == last'.dataset
               IN  /\ ~last'.result.raised
                   /\ DOMAIN datasets' = (DOMAIN datasets) \cup {dataset.id}
                   /\ datasets'[dataset.id] = dataset
                   /\ \A id_ \in (DOMAIN datasets) \ {dataset.id} :
                          datasets'[id_] = datasets[id_]
                   /\ dao_upsert(datasets', dataset.id, dataset) = datasets'
                   /\ UNCHANGED <<uploadBoxes, workPackages>>
       /\ (last = NoCall /\ last'.op = "register_upload_box")
            => LET upload_box == last'.upload_box
               IN  /\ ~last'.result.raised
                   /\ DOMAIN uploadBoxes' = (DOMAIN uploadBoxes) \cup {upload_box.id}
                   /\ uploadBoxes'[upload_box.id] = upload_box
                   /\ \A id_ \in (DOMAIN uploadBoxes) \ {upload_box.id} :
                          uploadBoxes'[id_] = uploadBoxes[id_]
                   /\ dao_upsert(uploadBoxes', upload_box.id, upload_box) = uploadBoxes'
                   /\ UNCHANGED <<datasets, workPackages>>]_vars

\* The dataset is registered with changed content while a work package made
\* from its first content is stored: the store holds the changed dataset.
C16_Witness ==
    /\ last.op = "register_dataset"
    /\ last.dataset = DATASET_V2
    /\ datasets["D1"] = DATASET_V2
    /\ \E id_ \in DOMAIN workPackages :
           /\ workPackages[id_].dataset_id = "D1"
           /\ "F1" \in dict_keys(workPackages[id_].files)

------------------------------------------------------------------------------
(* Properties of the event consumer *)

------------------------------------------------------------------------------
\* C18: when the processing of an event raises, as it does for a dataset
\* upsertion whose payload fails the MetadataDatasetOverview validation, the
\* dead letter queue grows by exactly one event, which carries the key and
\* the payload of the event processed, and the collections are left as they
\* were; when the processing does not raise, and in every other step, the
\* dead letter queue is left as it was.
C18_FailedEventToDlq ==
    [][IF inbox /= <<>> /\ inbox' = Tail(inbox)
       THEN LET event == Head(inbox)
                topic == IF event.topic = config.retry_topic
                         THEN event.headers.original_topic ELSE event.topic
            IN  /\ (/\ topic = config.dataset_change_topic
                    /\ event.type_ = config.dataset_upsertion_type
                    /\ event.payload.schema /= "MetadataDatasetOverview")
                     => last'.result.raised
                /\ last'.result.raised
                     => /\ Len(dlq') = Len(dlq) + 1
                        /\ SubSeq(dlq', 1, Len(dlq)) = dlq
                        /\ dlq'[Len(dlq')].topic = config.kafka_dlq_topic
                        /\ dlq'[Len(dlq')].key = event.key
                        /\ dlq'[Len(dlq')].payload = event.payload
                        /\ UNCHANGED <<datasets, uploadBoxes, workPackages>>
                /\ ~last'.result.raised => dlq' = dlq
       ELSE dlq' = dlq]_vars

\* An upsertion event with a payload that fits no schema was processed while
\* a dataset is stored: the event is in the dead letter queue.
C18_Witness ==
    /\ last.op = "consume"
    /\ last.event.topic = config.dataset_change_topic
    /\ last.event.type_ = config.dataset_upsertion_type
    /\ last.event.payload = BOGUS_PAYLOAD
    /\ last.result.raised
    /\ Len(dlq) = 1
    /\ dlq[1].key = "test-key"
    /\ dlq[1].payload = BOGUS_PAYLOAD
    /\ dao_has(datasets, "D1")

------------------------------------------------------------------------------
\* C19: an upsertion event with a valid payload that is in flight on the
\* retry topic, with the header original_topic naming the dataset change
\* topic, is eventually processed by the handler of upsertions without
\* raising, and get_dataset then returns the dataset of the event.
C19_RetryEventDispatched ==
    (\E i \in DOMAIN inbox : inbox[i] = RETRY_UPSERTION_EVENT)
    ~> (/\ last.op = "consume"
        /\ last.event = RETRY_UPSERTION_EVENT
        /\ ~last.result.raised
        /\ dlq = <<>> \/ dlq[Len(dlq)].payload /= RETRY_UPSERTION_EVENT.payload
        /\ get_dataset("D1") = Return(DATASET_V1))

\* The event from the retry topic was processed after the dataset had been
\* deleted: the dataset is stored again.
C19_Witness ==
    /\ last.op = "consume"
    /\ last.event = RETRY_UPSERTION_EVENT
    /\ last.event.topic = config.retry_topic
    /\ ~last.result.raised
    /\ get_dataset("D1") = Return(DATASET_V1)
    /\ dlq /= <<>>

------------------------------------------------------------------------------
(* Properties of the access adapter *)

\* C20: check_download_access and check_upload_access return the expiry for
\* status 200 with an ISO datetime, None for status 200 with null and for
\* status 404, and raise AccessCheckError for every other status and for a
\* payload that is no datetime; the list operations return the empty
\* mapping for 404, raise AccessCheckError for every other status but 200,
\* for a value that is no datetime and (boxes) for a key that is no UUID,
\* and return the converted mapping otherwise.
C20_AccessOutcomes ==
    LET response == last.response
        bad_value == \E i \in DOMAIN response.json :
                        response.json[i][2].type /= "datetime"
        bad_key == \E i \in DOMAIN response.json :
                      response.json[i][1] \notin UserIds \cup BoxIds
        expected_mapping ==
            AccessMapping([i \in DOMAIN response.json |->
                              <<response.json[i][1], response.json[i][2].at>>])
    IN  /\ last.op \in {"check_download_access", "check_upload_access"}
            => last.result =
                 IF response.status_code = 404 THEN AccessNone
                 ELSE IF response.status_code /= 200 THEN AccessCheckError
                 ELSE IF response.json.type = "null" THEN AccessNone
                 ELSE IF response.json.type = "datetime"
                      THEN AccessGranted(response.json.at)
                      ELSE AccessCheckError
        /\ last.op = "get_accessible_datasets_with_expiration"
            => last.result =
                 IF response.status_code = 404 THEN AccessMapping(<<>>)
                 ELSE IF response.status_code /= 200 \/ bad_value
                      THEN AccessCheckError
                      ELSE expected_mapping
        /\ last.op = "get_accessible_boxes_with_expiration"
            => last.result =
                 IF response.status_code = 404 THEN AccessMapping(<<>>)
                 ELSE IF response.status_code /= 200 \/ bad_value \/ bad_key
                      THEN AccessCheckError
                      ELSE expected_mapping

------------------------------------------------------------------------------
(* Properties of the listings *)

\* C23: get_upload_boxes returns the registered upload boxes among those the
\* access service lists for the user, each once and with its access expiry,
\* skips the listed boxes that are not registered, and returns no entry
\* whose expiry is at or before now.
C23_UploadBoxesNotExpired ==
    (last.op = "get_upload_boxes" /\ ~last.result.raised)
    => LET listed == last.listing.items
           boxes == last.result.value
       IN  /\ {boxes[i].id : i \in DOMAIN boxes}
                  = {listed[i][1] : i \in DOMAIN listed} \cap DOMAIN uploadBoxes
           /\ \A i, j \in DOMAIN boxes : boxes[i].id = boxes[j].id => i = j
           /\ \A i \in DOMAIN boxes :
                  /\ \E j \in DOMAIN listed :
                         listed[j] = <<boxes[i].id, boxes[i].expires>>
                  /\ boxes[i].title = uploadBoxes[boxes[i].id].title
                  /\ boxes[i].expires > now

\* C24: get_datasets returns exactly one DatasetWithExpiration for each
\* dataset id that the access service lists for the user and that is stored,
\* with the fields of the stored dataset and the expiry of the listing; the
\* listed ids that are not stored are skipped without an error; and an
\* AccessCheckError of the listing makes the call raise a
\* WorkPackageAccessError.
C24_DatasetsListedAndStored ==
    (last.op = "get_datasets" /\ is_uuid(last.auth_context.id))
    => IF last.listing = AccessCheckError
       THEN /\ last.result.raised
            /\ last.result.exc = "WorkPackageAccessError"
       ELSE LET listed == last.listing.items
                found == last.result.value
            IN  /\ ~last.result.raised
                /\ {found[i].id : i \in DOMAIN found}
                       = {listed[i][1] : i \in DOMAIN listed} \cap DOMAIN datasets
                /\ \A i, j \in DOMAIN found : found[i].id = found[j].id => i = j
                /\ \A i \in DOMAIN found :
                       /\ \E j \in DOMAIN listed :
                              listed[j] = <<found[i].id, found[i].expires>>
                       /\ \A field \in DOMAIN datasets[found[i].id] :
                              found[i][field] = datasets[found[i].id][field]
                       /\ DOMAIN found[i] =
                              (DOMAIN datasets[found[i].id]) \cup {"expires"}

\* The access service lists the stored dataset D1 and an id that is not
\* stored: the listing returned is D1 alone.
C24_Witness ==
    /\ last.op = "get_datasets"
    /\ ~last.result.raised
    /\ Len(last.listing.items) = 2
    /\ Len(last.result.value) = 1
    /\ last.result.value[1].id = "D1"
    /\ last.result.value[1].expires = last.listing.items[1][2]

------------------------------------------------------------------------------
(* Properties of the upload work order tokens *)

\* C26: get_upload_wot called with work_type "create" and no alias, or with
\* work_type "upload", "close" or "delete" and no file_id, fails with a
\* WorkPackageAccessError and returns no token.
C26_MissingParameterAccessError ==
    (/\ last.op = "get_upload_wot"
     /\ \/ last.work_type = "create" /\ last.alias = NONE
        \/ last.work_type \in {"upload", "close", "delete"} /\ last.file_id = NONE)
    => /\ last.result.raised
       /\ last.result.exc = "WorkPackageAccessError"

\* C30: get_upload_wot returns a token for a box only when the work package
\* is of type UPLOAD and the box is the one the work package was created
\* for.
C30_UploadWotOnlyForOwnBox ==
    (last.op = "get_upload_wot" /\ ~last.result.raised)
    => /\ workPackages[last.work_package_id].type = UPLOAD
       /\ workPackages[last.work_package_id].box_id = last.box_id

------------------------------------------------------------------------------
(* Properties of the routes *)

\* C21: the routes that list the datasets and the upload boxes of a user
\* respond 403 whenever the user id of the path differs from the id of the
\* authenticated user, and then the listing of the repository (and with it
\* the access service) is not called; a listing is only returned to the
\* user it is the listing of.
C21_ListingsOnlyForOwnUser ==
    last.op \in {"routes.get_datasets", "routes.get_upload_boxes"}
    => /\ last.user_id /= last.auth_context.id
          => /\ last.response.status_code = 403
             /\ ~last.repository.called
       /\ last.response.status_code = 200
          => /\ last.user_id = last.auth_context.id
             /\ last.repository.called

\* User u1 asks for the datasets of user u2 and is refused.
C21_Witness ==
    /\ last.op = "routes.get_datasets"
    /\ last.auth_context = AUTH_USER
    /\ last.user_id = "u2"
    /\ last.response.status_code = 403
    /\ last.response.detail = "Not authorized to get datasets"
    /\ ~last.repository.called


\* C22: in every route a WorkPackageAccessError raised by the repository is
\* answered with status 403 and the text of the error as detail, never with
\* a success status; a success status is only given when the repository
\* call succeeded, and a route for work order tokens whose repository call
\* succeeded answers 201 with the token.
C22_AccessErrorIs403 ==
    last.op \in {"routes.create_work_package", "routes.get_work_package",
                 "routes.create_download_work_order_token",
                 "routes.create_upload_work_order_token",
                 "routes.get_datasets", "routes.get_upload_boxes"}
    => /\ (/\ last.repository.called
           /\ last.repository.result.raised
           /\ last.repository.result.exc = "WorkPackageAccessError")
          => /\ last.response.status_code = 403
             /\ last.response.detail = last.repository.result.msg
       /\ last.response.status_code \in {200, 201}
          => /\ last.repository.called
             /\ ~last.repository.result.raised
       /\ (/\ last.op \in {"routes.create_download_work_order_token",
                           "routes.create_upload_work_order_token"}
           /\ last.repository.called
           /\ ~last.repository.result.raised)
          => /\ last.response.status_code = 201
             /\ last.response.content = last.repository.result.value

\* A token for a file that is not in the work package is asked for with the
\* right access token: the error of the repository comes back as 403.
C22_Witness ==
    /\ last.op = "routes.create_download_work_order_token"
    /\ last.repository.called
    /\ last.repository.result.raised
    /\ last.repository.result.msg = "File is not contained in work package"
    /\ last.response.status_code = 403
    /\ last.response.detail = "File is not contained in work package"


------------------------------------------------------------------------------
(* Properties of the keys *)

\* C28: validate_public_key returns the bare base64 string of every valid
\* 32-byte key, whether it is passed bare or between the BEGIN/END lines of
\* a CRYPT4GH PUBLIC KEY; it raises for an empty or non-string input, for a
\* wrapper that contains PRIVATE, for a wrapper that is not the Crypt4GH
\* public one, and for a payload that does not decode to 32 bytes; and the
\* creation data keep the bare form of the key.
C28_PublicKeyUnwrapped ==
    /\ last.op = "validate_public_key"
       => IF last.key = [not_a_string |-> TRUE]
          THEN last.result.raised /\ last.result.exc = "ValueError"
          ELSE IF /\ last.key.pem \in {"", "CRYPT4GH PUBLIC KEY"}
                  /\ last.key.payload = "k1"
          THEN last.result = [raised |-> FALSE, value |-> "k1"]
          ELSE /\ last.result.raised
               /\ last.result.exc = "ValueError"
               /\ last.key.pem \in {"CRYPT4GH PRIVATE KEY", "PRIVATE KEY"}
                  => last.result.msg = "Do not pass a private key"
    /\ (last.op = "WorkPackageCreationData" /\ ~last.result.raised)
       => /\ last.raw.user_public_crypt4gh_key.pem \in {"", "CRYPT4GH PUBLIC KEY"}
          /\ last.result.value.user_public_crypt4gh_key
                = last.raw.user_public_crypt4gh_key.payload

\* A 32-byte key wrapped as a Crypt4GH public key comes back bare.
C28_Witness ==
    /\ last.op = "validate_public_key"
    /\ last.key = [pem |-> "CRYPT4GH PUBLIC KEY", payload |-> "k1"]
    /\ last.result = [raised |-> FALSE, value |-> "k1"]

------------------------------------------------------------------------------
(* Properties of the signing key *)

\* C29: constructing the repository with a signing key that has no private
\* part fails with a KeyError and leaves no repository, so that every call
\* is served, and every token is signed, by a repository whose signing key
\* has its private part; and the signing key of a repository never changes
\* after the construction.
C29_SigningKeyPrivate ==
    /\ [](/\ (last.op = "WorkPackageRepository" /\ ~last.key.has_private)
             => /\ last.result.raised
                /\ last.result.exc = "KeyError"
                /\ signingKey = [kid |-> "<None>", has_private |-> FALSE]
          /\ last.op \notin {"none", "WorkPackageRepository"}
             => signingKey.has_private
          /\ (/\ last.op \in {"get_download_wot", "get_upload_wot"}
              /\ ~last.result.raised)
             => last.result.value.plain.signed_by.has_private)
    /\ [][signingKey /= [kid |-> "<None>", has_private |-> FALSE]
          => signingKey' = signingKey]_vars

\* A repository that was constructed with the key pair has signed a token
\* with it.
C29_Witness ==
    /\ last.op = "get_upload_wot"
    /\ ~last.result.raised
    /\ signingKey = SIGNING_KEY
    /\ last.result.value.plain.signed_by = signingKey

------------------------------------------------------------------------------
(* Properties of the life of a work package *)

\* C31: once a re-check of the access for a work package has given no expiry
\* date (the access is revoked), no later call of get_download_wot or
\* get_upload_wot for that work package returns a token, whatever the
\* access service answers afterwards (the calls are made with check_valid,
\* as the routes make them): a call for a work package that was seen
\* revoked raises.
C31_RevokedIsTerminal ==
    (/\ last.op \in {"get_download_wot", "get_upload_wot"}
     /\ last.check_valid
     /\ last.work_package_id \in revoked)
    => last.result.raised


\* C32: get with check_valid (alone or within get_download_wot and
\* get_upload_wot) succeeds only while created <= now < expires holds for
\* the work package; a call for an existing work package with the right (or
\* no) access token at now = expires or later is rejected with "Work package
\* has expired"; and a work package that has expired stays expired, as its
\* expiry is never changed and the clock does not go back.
C32_ExpiredIsAbsorbing ==
    /\ []((/\ last.op \in {"get", "get_download_wot", "get_upload_wot"}
           /\ last.check_valid)
          => /\ ~last.result.raised
                => /\ workPackages[last.work_package_id].created <= now
                   /\ now < workPackages[last.work_package_id].expires
             /\ (/\ last.work_package_id \in DOMAIN workPackages
                 /\ last.work_package_access_token
                        \in {"<None>", "", issued[last.work_package_id]}
                 /\ now >= workPackages[last.work_package_id].expires)
                => /\ last.result.raised
                   /\ last.result.exc = "WorkPackageAccessError"
                   /\ last.result.msg = "Work package has expired")
    /\ \A id \in WorkPackageIds :
           []((id \in DOMAIN workPackages /\ now >= workPackages[id].expires)
              => [](id \in DOMAIN workPackages /\ now >= workPackages[id].expires))

\* get is called with the right access token at the very instant of expiry.
C32_Witness ==
    /\ last.op = "get"
    /\ last.check_valid
    /\ last.work_package_id \in DOMAIN workPackages
    /\ last.work_package_access_token = issued[last.work_package_id]
    /\ workPackages[last.work_package_id].created < now
    /\ now = workPackages[last.work_package_id].expires
    /\ last.result.raised
    /\ last.result.msg = "Work package has expired"

------------------------------------------------------------------------------
(* Properties of the projection under redelivered events *)

\* C33: the projection of a dataset never goes back: while no event is in
\* flight, dataset D1 is in the projection as the newest change that the
\* consumer has received from the metadata service left it (stored with the
\* title of the newest upsertion, or absent after a deletion), also after
\* an older event for D1 has come again through the retry topic.
C33_ProjectionNeverRegresses ==
    (inbox = <<>> /\ delivered /= <<>>)
    => LET newest == delivered[Len(delivered)]
       IN  IF newest.type_ = "dataset_deleted"
           THEN "D1" \notin DOMAIN datasets
           ELSE /\ "D1" \in DOMAIN datasets
                /\ datasets["D1"].title = newest.payload.title

------------------------------------------------------------------------------
(* Properties of the work packages and the projection *)

C35_DeletionOfAbsentIsNoop ==
    [][(/\ inbox /= <<>>
        /\ inbox' = Tail(inbox)
        /\ last'.op = "consume"
        /\ last'.event = Head(inbox))
       => LET event == Head(inbox)
              of_dataset == /\ dispatch_topic(event) = config.dataset_change_topic
                            /\ event.type_ = config.dataset_deletion_type
                            /\ event.payload.schema = "MetadataDatasetID"
              of_box == /\ dispatch_topic(event) = config.upload_box_topic
                        /\ event.type_ = "deleted"
                        /\ is_uuid(event.key)
          IN  /\ of_dataset
                 => /\ ~last'.result.raised
                    /\ dlq' = dlq
                    /\ event.payload.accession \notin DOMAIN datasets'
                    /\ event.payload.accession \notin DOMAIN datasets
                       => datasets' = datasets /\ uploadBoxes' = uploadBoxes
              /\ of_box
                 => /\ ~last'.result.raised
                    /\ dlq' = dlq
                    /\ event.key \notin DOMAIN uploadBoxes'
                    /\ event.key \notin DOMAIN uploadBoxes
                       => datasets' = datasets /\ uploadBoxes' = uploadBoxes]_vars

\* The deletion of dataset D1 was processed without an error while the
\* projection holds no dataset at all, and the dead letter queue is empty.
C35_Witness ==
    /\ last.op = "consume"
    /\ last.event.type_ = config.dataset_deletion_type
    /\ last.event.payload = MetadataDatasetID("D1")
    /\ ~last.result.raised
    /\ datasets = EmptyCollection
    /\ dlq = <<>>


\* C36: when the consumer processes a dataset upsertion event whose payload
\* is a valid MetadataDatasetOverview with a stage that is no member of
\* WorkPackageType, the processing does not raise, nothing is added to the
\* dead letter queue, and both collections stay as they were: a dataset
\* stored under that id keeps its content and a dataset not stored stays
\* out of the projection.
C36_UnknownStageSkipped ==
    [][(/\ inbox /= <<>>
        /\ inbox' = Tail(inbox)
        /\ last'.op = "consume"
        /\ last'.event = Head(inbox)
        /\ dispatch_topic(Head(inbox)) = config.dataset_change_topic
        /\ Head(inbox).type_ = config.dataset_upsertion_type
        /\ Head(inbox).payload.schema = "MetadataDatasetOverview"
        /\ Head(inbox).payload.stage \notin {"DOWNLOAD", "UPLOAD"})
       => /\ ~last'.result.raised
          /\ last'.result.value = NONE
          /\ dlq' = dlq
          /\ datasets' = datasets
          /\ uploadBoxes' = uploadBoxes]_vars

\* The upsertion of D1 with the stage ARCHIVE was processed without an
\* error; D1 is stored as the earlier upsertion left it, and the dead letter
\* queue is empty.
C36_Witness ==
    /\ last.op = "consume"
    /\ last.event.payload = UPSERTION_PAYLOAD_ARCHIVE
    /\ ~last.result.raised
    /\ get_dataset("D1") = Return(DATASET_V1)
    /\ dlq = <<>>


------------------------------------------------------------------------------
(* Properties of the order of the checks *)

\* C37: get compares the access token before it checks the validity: for a
\* stored work package, a supplied access token that does not match is
\* refused with WorkPackageAccessError "Invalid work package access token"
\* and the access service is not called, whether or not the work package
\* has expired or the access was revoked; the access service is called only
\* for a stored work package, with check_valid, after the token matched (or
\* none was supplied) and at an instant with created <= now < expires.
C37_TokenBeforeValidity ==
    last.op \in {"get", "get_download_wot", "get_upload_wot"}
    => /\ (/\ last.work_package_id \in DOMAIN workPackages
           /\ last.work_package_access_token \notin
                  {"<None>", "", issued[last.work_package_id]})
          => /\ last.result.raised
             /\ last.result.exc = "WorkPackageAccessError"
             /\ last.result.msg = "Invalid work package access token"
             /\ ~last.access.called
       /\ last.access.called
          => /\ last.work_package_id \in DOMAIN workPackages
             /\ last.check_valid
             /\ last.work_package_access_token
                    \in {"<None>", "", issued[last.work_package_id]}
             /\ workPackages[last.work_package_id].created <= now
             /\ now < workPackages[last.work_package_id].expires

\* get is called with check_valid and a wrong access token for a work
\* package that has expired: the token is what is refused, and the access
\* service was not asked.
C37_Witness ==
    /\ last.op = "get"
    /\ last.check_valid
    /\ last.work_package_id \in DOMAIN workPackages
    /\ last.work_package_access_token \notin
           {"<None>", "", issued[last.work_package_id]}
    /\ now >= workPackages[last.work_package_id].expires
    /\ last.result.raised
    /\ last.result.msg = "Invalid work package access token"
    /\ ~last.access.called


\* C38: the routes that take a work package access token (get work package,
\* create download work order token, create upload work order token)
\* answer a missing or empty token with 403 without calling the repository;
\* so the repository is called with a token that it compares, and the
\* routes answer 200 or 201 only for a stored work package whose token was
\* supplied, at an instant with created <= now < expires, and after the
\* access service confirmed the access in that call.
C38_RoutesAlwaysCheck ==
    last.op \in {"routes.get_work_package",
                 "routes.create_download_work_order_token",
                 "routes.create_upload_work_order_token"}
    => /\ last.work_package_access_token \in {"<None>", ""}
          => /\ last.response.status_code = 403
             /\ ~last.repository.called
       /\ last.repository.called
          => last.work_package_access_token \notin {"<None>", ""}
       /\ last.response.status_code \in {200, 201}
          => /\ last.repository.called
             /\ last.work_package_id \in DOMAIN workPackages
             /\ last.work_package_access_token = issued[last.work_package_id]
             /\ workPackages[last.work_package_id].created <= now
             /\ now < workPackages[last.work_package_id].expires
             /\ last.repository.access.called
             /\ last.repository.access.outcome.kind \notin {"none", "raise"}

\* The work package route is asked for a stored work package with an empty
\* access token: the answer is 403 and the repository was not called.
C38_Witness ==
    /\ last.op = "routes.get_work_package"
    /\ last.work_package_access_token = ""
    /\ last.work_package_id \in DOMAIN workPackages
    /\ last.response.status_code = 403
    /\ ~last.repository.called


------------------------------------------------------------------------------
(* Properties of work packages side by side *)

\* C39: work packages are isolated: when get or one of the token methods is
\* called for a stored work package with the access token of another stored
\* work package, and the two were created with distinct secrets, the call
\* is refused with WorkPackageAccessError "Invalid work package access
\* token"; and a step that changes the work packages inserts exactly one
\* work package under an id that was not in use, with the hash of the
\* secret it hands out, and leaves every stored work package as it was,
\* also when the create call ran while another create call was between its
\* awaits.
C39_WorkPackagesIsolated ==
    /\ []((/\ last.op \in {"get", "get_download_wot", "get_upload_wot"}
           /\ last.work_package_id \in DOMAIN workPackages
           /\ \E other \in DOMAIN workPackages :
                  /\ other /= last.work_package_id
                  /\ issued[other] /= issued[last.work_package_id]
                  /\ last.work_package_access_token = issued[other])
          => /\ last.result.raised
             /\ last.result.exc = "WorkPackageAccessError"
             /\ last.result.msg = "Invalid work package access token")
    /\ [][/\ \A id \in DOMAIN workPackages :
                 /\ id \in DOMAIN workPackages'
                 /\ workPackages'[id] = workPackages[id]
                 /\ issued'[id] = issued[id]
          /\ workPackages' /= workPackages
             => /\ Cardinality(DOMAIN workPackages')
                      = Cardinality(DOMAIN workPackages) + 1
                /\ last'.op = "create"
                /\ ~last'.result.raised
                /\ last'.result.value.id \notin DOMAIN workPackages
                /\ last'.result.value.id \in DOMAIN workPackages'
                /\ workPackages'[last'.result.value.id].token_hash
                       = hash_token(issued'[last'.result.value.id])]_vars

\* Two work packages are stored, created with distinct secrets; the work
\* order token of a file of the second was asked for with the access token
\* of the first, and refused.
C39_Witness ==
    /\ DOMAIN workPackages = {1, 2}
    /\ issued[1] /= issued[2]
    /\ workPackages[2].type = DOWNLOAD
    /\ last.op = "get_download_wot"
    /\ last.work_package_id = 2
    /\ last.work_package_access_token = issued[1]
    /\ last.result.raised
    /\ last.result.msg = "Invalid work package access token"


------------------------------------------------------------------------------
(* Properties of upload work packages and their box *)

\* C40: the creation of an upload work package does not look at the
\* registered upload boxes: it fails only for a malformed user id or for
\* what the access check gives, and succeeds for a box that is not
\* registered. get_upload_wot needs the box: it returns a token only while
\* the box of the call is registered; when the call passes the checks of
\* get (the work package is stored, the token matches or is absent, and
\* under check_valid the work package is inside its period with the access
\* confirmed) and the box is not registered, it raises
\* WorkPackageAccessError "Upload box does not exist"; and that error is
\* raised only in this case, so that the same call with the box registered
\* again is no longer refused for the box.
C40_UploadWotNeedsBox ==
    /\ (/\ last.op = "create"
        /\ last.creation_data.type = UPLOAD)
       => IF last.result.raised
          THEN last.result.msg \in
                   {"Malformed user ID supplied",
                    "Failed to check upload box access permission",
                    "Missing upload box access permission"}
          ELSE workPackages[last.result.value.id].box_id
                   = last.creation_data.box_id
    /\ last.op = "get_upload_wot"
       => LET passed ==
                  /\ last.work_package_id \in DOMAIN workPackages
                  /\ last.work_package_access_token
                         \in {"<None>", "", issued[last.work_package_id]}
                  /\ last.check_valid
                     => /\ workPackages[last.work_package_id].created <= now
                        /\ now < workPackages[last.work_package_id].expires
                        /\ last.access.called
                        /\ last.access.outcome.kind = "expiry"
              registered == last.box_id \in DOMAIN uploadBoxes
          IN  /\ ~last.result.raised => passed /\ registered
              /\ (passed /\ ~registered)
                 => /\ last.result.raised
                    /\ last.result.exc = "WorkPackageAccessError"
                    /\ last.result.msg = "Upload box does not exist"
              /\ (last.result.raised /\ last.result.msg = "Upload box does not exist")
                 => passed /\ ~registered
              /\ (passed /\ registered /\ last.work_type = "view")
                 => ~last.result.raised

\* A token is asked for with check_valid and the right access token for an
\* upload work package inside its period, with the access confirmed, for
\* the box of the work package; the box is not registered and the call is
\* refused.
C40_Witness ==
    /\ last.op = "get_upload_wot"
    /\ last.check_valid
    /\ last.work_package_id \in DOMAIN workPackages
    /\ workPackages[last.work_package_id].type = UPLOAD
    /\ workPackages[last.work_package_id].box_id = last.box_id
    /\ last.work_package_access_token = issued[last.work_package_id]
    /\ last.access.called
    /\ last.access.outcome.kind = "expiry"
    /\ last.box_id \notin DOMAIN uploadBoxes
    /\ last.result.raised
    /\ last.result.msg = "Upload box does not exist"

====
